---------------------------- MODULE Spec2Model ----------------------------
(***************************************************************************)
(* State-machine model of the CorrahFlow media proxy data plane            *)
(* (src/services/hls_proxy.py, src/config.py, src/extractors/generic.py).  *)
(*                                                                         *)
(* Text is modelled as a sequence of tokens: a URL such as                 *)
(* "o1/seg-1.m4s" is <<"o1", "/", "seg", "-", "1", ".m4s">>, and Python's  *)
(* `a in b` on strings is the contiguous-subsequence test Contains(a, b).  *)
(* Header names are atomic strings; Lower gives str.lower() on them.       *)
(* A dict is a function whose DOMAIN is the set of its keys.               *)
(* The asyncio event loop runs one task at a time, so each action is the   *)
(* code a task runs between two suspension points.                         *)
(***************************************************************************)
EXTENDS Integers, Sequences, FiniteSets, Bags, TLC

VARIABLES
    API_PASSWORD,       \* config.API_PASSWORD
    GLOBAL_PROXIES,     \* config.GLOBAL_PROXIES (list)
    TRANSPORT_ROUTES,   \* config.TRANSPORT_ROUTES (list of routes)
    MPD_MODE,           \* config.MPD_MODE
    origins,            \* what the origins of this run can answer
    extractors,         \* HLSProxy.extractors: key -> instance
    created,            \* number of extractor constructor calls per key
    calls,              \* proxy / extractor handler tasks suspended in an await
    session,            \* HLSProxy.session (the shared direct session)
    proxy_sessions,     \* HLSProxy.proxy_sessions: proxy -> session state
    segment_cache,      \* HLSProxy.segment_cache, in dict order: key, content, time
    init_cache,         \* HLSProxy.init_cache: the init URLs it holds
    prefetch_tasks,     \* HLSProxy.prefetch_tasks: the pending set of cache keys
    prefetching,        \* bag of the _fetch_and_cache_segment tasks in flight
    decrypting,         \* handle_decrypt_segment tasks suspended in an await
    now,                \* time.time()
    ev,                 \* what the latest step did in the segment pipeline
    sent,               \* upstream requests issued by the latest step
    resp,               \* what the latest step did for its client request
    closing,            \* HLSProxy.cleanup: where it is, and what it has left to close
    acquired,           \* what the latest _get_proxy_session call returned
    mpd_request,        \* the MPD request being converted: manifest and query
    playlist,           \* the playlist convert_media_playlist returned for it
    returned            \* the latest call of a function: its arguments and result

-----------------------------------------------------------------------------
(* Python values *)

None == "None"

EmptyDict == [x \in {} |-> <<>>]

Put(d, k, v) == [x \in (DOMAIN d) \cup {k} |-> IF x = k THEN v ELSE d[x]]

Del(d, ks) == [x \in (DOMAIN d) \ ks |-> d[x]]

Range(s) == {s[i] : i \in 1..Len(s)}

Min(S) == CHOOSE x \in S : \A y \in S : x <= y

\* Python `a in b` for strings: a occurs in b as a contiguous run.
Contains(a, b) ==
    \E i \in 0..(Len(b) - Len(a)) : \A j \in 1..Len(a) : b[i + j] = a[j]

\* str.lower() on the header names the model uses.
Lower(name) ==
    CASE name \in {"X-Forwarded-For", "x-forwarded-for"} -> "x-forwarded-for"
      [] name \in {"Via", "via"} -> "via"
      [] name \in {"X-Real-IP", "x-real-ip"} -> "x-real-ip"
      [] name \in {"Forwarded", "forwarded"} -> "forwarded"
      [] name \in {"User-Agent", "user-agent"} -> "user-agent"
      [] name \in {"Referer", "referer"} -> "referer"
      [] name \in {"Origin", "origin"} -> "origin"
      [] name \in {"Cookie", "cookie"} -> "cookie"
      [] name \in {"Authorization", "authorization"} -> "authorization"
      [] name \in {"Range", "range"} -> "range"
      [] name \in {"If-None-Match", "if-none-match"} -> "if-none-match"
      [] name \in {"If-Modified-Since", "if-modified-since"} -> "if-modified-since"
      [] name \in {"Heartbeat-Url", "heartbeat-url"} -> "heartbeat-url"
      [] OTHER -> name

\* str.lower() on text: the tokens of the model are lower case except these.
LowerTok(t) ==
    CASE t = "/RESOLVE/" -> "/resolve/"
      [] t = "Chrome" -> "chrome"
      [] t = "Vavoo" -> "vavoo"
      [] t = "VIXSRC.TO/" -> "vixsrc.to/"
      [] OTHER -> t

LowerText(s) == [i \in 1..Len(s) |-> LowerTok(s[i])]

\* A case-insensitive mapping (aiohttp request.headers): `name in d`, d[name].
CIHas(d, name) == \E k \in DOMAIN d : Lower(k) = Lower(name)

CIGet(d, name) == d[CHOOSE k \in DOMAIN d : Lower(k) = Lower(name)]

\* urlparse(u).netloc: the host is the first token of a URL.
netloc(u) == IF Len(u) > 0 THEN <<u[1]>> ELSE <<>>

DEFAULT_USER_AGENT == <<"mozilla", "applewebkit", "chrome">>

-----------------------------------------------------------------------------
(* config.py *)

\* get_proxy_for_url with the last matching route deciding.
get_proxy_for_url_last(url, transport_routes, global_proxies) ==
    LET pool == IF Len(global_proxies) > 0 THEN Range(global_proxies) ELSE {None}
        hits == {i \in 1..Len(transport_routes) :
                    Contains(transport_routes[i].url, url)}
    IN  IF url = <<>> \/ hits = {} THEN pool
        ELSE LET last == CHOOSE i \in hits : \A j \in hits : j <= i
                 proxy_value == transport_routes[last].proxy
             IN  {IF proxy_value # None /\ proxy_value # "" THEN proxy_value
                  ELSE None}

\* get_proxy_for_url: the set of values random.choice can make it return.
get_proxy_for_url(url, transport_routes, global_proxies) ==
    LET pool == IF Len(global_proxies) > 0 THEN Range(global_proxies) ELSE {None}
        hits == {i \in 1..Len(transport_routes) :
                    Contains(transport_routes[i].url, url)}
    IN  IF url = <<>> \/ Len(transport_routes) = 0 THEN pool
        ELSE IF hits # {}
             THEN LET proxy_value == transport_routes[Min(hits)].proxy
                  IN  {IF proxy_value # None /\ proxy_value # "" THEN proxy_value
                       ELSE None}
             ELSE pool

get_ssl_setting_for_url(url, transport_routes) ==
    LET hits == {i \in 1..Len(transport_routes) :
                    Contains(transport_routes[i].url, url)}
    IN  IF url = <<>> \/ Len(transport_routes) = 0 THEN FALSE
        ELSE IF hits # {} THEN transport_routes[Min(hits)].disable_ssl
             ELSE FALSE

\* check_password(request): query api_password, then header x-api-password.
check_password(request) ==
    \/ API_PASSWORD = None
    \/ request.api_password = API_PASSWORD
    \/ request.x_api_password = API_PASSWORD


-----------------------------------------------------------------------------
(* extractors/generic.py *)

is_redirector(url) ==
    \/ Contains(<<"/resolve/">>, LowerText(url))
    \/ Contains(<<"torrentio">>, LowerText(url))

base_headers ==
    [x \in {"user-agent", "accept", "accept-language"} |->
        IF x = "user-agent" THEN DEFAULT_USER_AGENT
        ELSE IF x = "accept" THEN <<"*/*">> ELSE <<"it">>]

STREMIO_REFERER == <<"strem.io", "/">>

\* GenericHLSExtractor.extract, the header part: the descriptor's
\* request_headers, computed from the headers the instance was built with.
extract_headers(request_headers, url) ==
    LET origin == netloc(url)
        no_ref == ~ \E k \in DOMAIN request_headers : Lower(k) = "referer"
        no_org == ~ \E k \in DOMAIN request_headers : Lower(k) = "origin"
        h1 == IF ~ is_redirector(url)
              THEN LET a == IF no_ref THEN Put(base_headers, "referer", origin)
                            ELSE base_headers
                   IN  IF no_org THEN Put(a, "origin", origin) ELSE a
              ELSE IF no_ref THEN Put(base_headers, "referer", STREMIO_REFERER)
                   ELSE base_headers
        browser(v) == \/ Contains(<<"chrome">>, LowerText(v))
                      \/ Contains(<<"applewebkit">>, LowerText(v))
        leak(v) == /\ Contains(<<"torrentio">>, LowerText(url))
                   /\ \/ Contains(<<"pcdn">>, LowerText(v))
                      \/ Contains(<<"cssott">>, LowerText(v))
        uas == {k \in DOMAIN request_headers :
                   Lower(k) = "user-agent" /\ browser(request_headers[k])}
        kept == {k \in DOMAIN request_headers :
                   /\ Lower(k) # "user-agent"
                   /\ \/ Lower(k) \in {"referer", "origin"} /\ ~ leak(request_headers[k])
                      \/ Lower(k) \in {"authorization", "x-api-key", "x-auth-token",
                                       "cookie", "x-channel-key"}}
    IN  [x \in (DOMAIN h1) \cup kept |->
            IF x \in kept THEN request_headers[x]
            ELSE IF x = "user-agent" /\ uas # {}
                 THEN request_headers[CHOOSE k \in uas : TRUE]
                 ELSE h1[x]]

\* The headers of the handshake GET (resolution_headers).
resolution_headers ==
    [x \in {"User-Agent", "Accept", "Accept-Language", "Referer"} |->
        IF x = "User-Agent" THEN DEFAULT_USER_AGENT
        ELSE IF x = "Referer" THEN STREMIO_REFERER
        ELSE IF x = "Accept" THEN <<"text/html">> ELSE <<"it">>]

\* The hosts of the model's URLs.  A URL is written without its scheme: a
\* text is an absolute http URL when its first token is a host.
Hosts == {"o1", "o2", "o3", "cdn", "vavoo.to", "strem.io"}

is_absolute(u) == Len(u) > 0 /\ u[1] \in Hosts

\* str.startswith('http'): true of an absolute URL, and of a relative
\* reference whose first path segment begins with these letters.
starts_with_http(u) == is_absolute(u) \/ (Len(u) > 0 /\ u[1] = "httpdocs")

\* urllib.parse.urljoin(base, ref): ref when it is absolute, the base's
\* host and ref when ref is an absolute path, and otherwise ref in place of
\* the last segment of the base.
urljoin(base, ref) ==
    IF ref = <<>> THEN base
    ELSE IF is_absolute(ref) THEN ref
    ELSE IF ref[1] = "/" THEN netloc(base) \o ref
    ELSE SubSeq(base, 1, Len(base) - 1) \o ref

\* extract() after the handshake, with the pass-through descriptor left
\* out: the destination is whatever the attempts gave, even nothing.
handshake_destination_only(url, redirected_url) == redirected_url

\* extract() after the handshake: destination_url for the redirected_url
\* the attempts gave (<<>>: None or an empty Location).  The URLs of the
\* model have no space, so safe_url is url.
handshake_destination(url, redirected_url) ==
    IF redirected_url # <<>>
    THEN IF starts_with_http(redirected_url) THEN redirected_url
         ELSE urljoin(url, redirected_url)
    ELSE url

-----------------------------------------------------------------------------
(* HLSProxy.get_extractor *)

\* The extractor key get_extractor resolves (host hint, then URL table,
\* then the generic fallback).
\* Step 1, the host parameter in lower case: the key it names, or None.
host_key(host) ==
    LET h == LowerTok(host)
    IN  CASE host = None \/ host = "" -> None
          [] h = "vavoo" -> "vavoo"
          [] h \in {"dlhd", "daddylive", "daddyhd"} -> "dlhd"
          [] h = "vixsrc" -> "vixsrc"
          [] h \in {"sportsonline", "sportzonline"} -> "sportsonline"
          [] h = "mixdrop" -> "mixdrop"
          [] h = "voe" -> "voe"
          [] h = "streamtape" -> "streamtape"
          [] h = "orion" -> "orion"
          [] h = "freeshot" -> "freeshot"
          [] OTHER -> None

\* url_key with the vixsrc rule reading the domain alone.
url_key_domain_only(url) ==
    LET has(w) == Contains(<<w>>, url)
    IN  IF has("vavoo.to") THEN "vavoo"
        ELSE IF has("daddylive") \/ has("dlhd") \/ has("daddyhd") THEN "dlhd"
        ELSE IF Contains(<<"vixsrc.to/">>, LowerText(url)) THEN "vixsrc"
        ELSE IF has("sportzonline") \/ has("sportsonline") THEN "sportsonline"
        ELSE IF has("mixdrop") THEN "mixdrop"
        ELSE "hls_generic"

\* Step 2, the rules on the URL in their order, then the generic fallback.
\* re.search(r'watch\.php\?id=\d+', url): the token watch.php?id= with a
\* digit after it.
url_key(url) ==
    LET has(w) == Contains(<<w>>, url)
        digit(t) == t \in {"0", "1", "2", "3", "4", "5", "6", "7", "8", "9"}
        watch == \E i \in 1..(Len(url) - 1) :
                    url[i] = "watch.php?id=" /\ digit(url[i + 1])
    IN  IF has("vavoo.to") THEN "vavoo"
        ELSE IF has("daddylive") \/ has("dlhd") \/ has("daddyhd") \/ watch
        THEN "dlhd"
        ELSE IF /\ Contains(<<"vixsrc.to/">>, LowerText(url))
                /\ (has("/movie/") \/ has("/tv/") \/ has("/iframe/"))
        THEN "vixsrc"
        ELSE IF has("sportzonline") \/ has("sportsonline") THEN "sportsonline"
        ELSE IF has("mixdrop") THEN "mixdrop"
        ELSE IF \E d \in {"voe.sx", "voe.to", "voe.st", "voe.eu", "voe.la",
                           "voe-network.net"} : has(d)
        THEN "voe"
        ELSE IF has("popcdn.day") THEN "freeshot"
        ELSE IF has("streamtape.com") \/ has("streamtape.to") \/ has("streamtape.net")
        THEN "streamtape"
        ELSE IF has("orionoid.com") THEN "orion"
        ELSE "hls_generic"

extractor_key(url, host) ==
    IF host_key(host) # None THEN host_key(host) ELSE url_key(url)

\* The pattern get_extractor looks up in the routes for a key of step 2.
route_pattern(key) ==
    CASE key = "vavoo" -> <<"vavoo.to">>
      [] key = "dlhd" -> <<"dlhd.dad">>
      [] key = "vixsrc" -> <<"vixsrc.to">>
      [] key = "sportsonline" -> <<"sportsonline">>
      [] key = "mixdrop" -> <<"mixdrop">>
      [] key = "voe" -> <<"voe.sx">>
      [] key = "freeshot" -> <<"popcdn.day">>
      [] key = "streamtape" -> <<"streamtape">>
      [] key = "orion" -> <<"orionoid.com">>

\* The proxies argument the constructor gets: the values it can take.
extractor_proxies(url, host) ==
    IF host_key(host) # None \/ extractor_key(url, host) = "hls_generic"
    THEN {GLOBAL_PROXIES}
    ELSE {IF p # None THEN <<p>> ELSE <<>> :
             p \in get_proxy_for_url(route_pattern(extractor_key(url, host)),
                                     TRANSPORT_ROUTES, GLOBAL_PROXIES)}

\* A new instance: only the generic extractor's fields are in src/.
new_instance(key, request_headers, proxies, n) ==
    [id |-> n,
     request_headers |-> IF key = "hls_generic" THEN request_headers ELSE EmptyDict,
     proxies |-> proxies,
     session |-> "unset"]

\* get_extractor without the `key not in self.extractors` test: an instance
\* is made on every call.
get_extractor_always(url, request_headers, host, proxies) ==
    LET key == extractor_key(url, host)
    IN  [key |-> key,
         extractors |-> [k \in DOMAIN extractors \cup {key} |->
                            IF k = key
                            THEN new_instance(key, request_headers, proxies,
                                              created[key] + 1)
                            ELSE extractors[k]],
         created |-> [created EXCEPT ![key] = @ + 1]]

\* get_extractor(url, request_headers, host): memoized per key.  It has no
\* await, so it runs to its return without another task in between.
get_extractor(url, request_headers, host, proxies) ==
    LET key == extractor_key(url, host)
    IN  IF key \in DOMAIN extractors
        THEN [key |-> key, extractors |-> extractors, created |-> created]
        ELSE [key |-> key,
              extractors |-> Put(extractors, key,
                                 new_instance(key, request_headers, proxies,
                                              created[key] + 1)),
              created |-> [created EXCEPT ![key] = @ + 1]]


-----------------------------------------------------------------------------
(* HLSProxy: HTTP client pool *)

\* Proxy URIs ProxyConnector.from_url rejects (it raises on a malformed URI).
BadProxies == {"bad://"}

\* _get_session(): the shared direct session, created when unset or closed.
get_session == "open"

\* _get_proxy_session(url) without the `not cached_session.closed` test: a
\* cached session is handed out whatever its state.
get_proxy_session_keep_closed(url) ==
    {LET cached == proxy # None /\ proxy \in DOMAIN proxy_sessions
         failed == proxy # None /\ ~ cached /\ proxy \in BadProxies
     IN  IF cached
         THEN [via |-> proxy, proxy |-> proxy, should_close |-> FALSE,
               state |-> proxy_sessions[proxy], created |-> FALSE,
               failed |-> FALSE, session |-> session,
               proxy_sessions |-> proxy_sessions]
         ELSE IF proxy # None /\ ~ failed
         THEN [via |-> proxy, proxy |-> proxy, should_close |-> FALSE,
               state |-> "open", created |-> TRUE, failed |-> FALSE,
               session |-> session,
               proxy_sessions |-> Put(proxy_sessions, proxy, "open")]
         ELSE [via |-> None, proxy |-> proxy, should_close |-> FALSE,
               state |-> get_session, created |-> FALSE, failed |-> failed,
               session |-> get_session, proxy_sessions |-> proxy_sessions]
     : proxy \in get_proxy_for_url(url, TRANSPORT_ROUTES, GLOBAL_PROXIES)}

\* _get_proxy_session(url): the outcomes it can have.  `proxy` is what
\* get_proxy_for_url chose, `via` the proxy the returned session leaves
\* through (None: the direct session), `state` the state of the returned
\* session, `created` whether a session was made and cached, `failed`
\* whether making it raised; session and proxy_sessions are the pool after
\* the call.  _get_session has no await, so the call runs in one step.
get_proxy_session(url) ==
    {LET has == proxy # None /\ proxy \in DOMAIN proxy_sessions
         cached == has /\ proxy_sessions[proxy] # "closed"
         pruned == IF has /\ ~ cached
                   THEN Del(proxy_sessions, {proxy}) ELSE proxy_sessions
         failed == proxy # None /\ ~ cached /\ proxy \in BadProxies
     IN  IF cached
         THEN [via |-> proxy, proxy |-> proxy, should_close |-> FALSE,
               state |-> proxy_sessions[proxy], created |-> FALSE,
               failed |-> FALSE, session |-> session,
               proxy_sessions |-> proxy_sessions]
         ELSE IF proxy # None /\ ~ failed
         THEN [via |-> proxy, proxy |-> proxy, should_close |-> FALSE,
               state |-> "open", created |-> TRUE, failed |-> FALSE,
               session |-> session,
               proxy_sessions |-> Put(pruned, proxy, "open")]
         ELSE [via |-> None, proxy |-> proxy, should_close |-> FALSE,
               state |-> get_session, created |-> FALSE, failed |-> failed,
               session |-> get_session, proxy_sessions |-> pruned]
     : proxy \in get_proxy_for_url(url, TRANSPORT_ROUTES, GLOBAL_PROXIES)}

-----------------------------------------------------------------------------
(* HLSProxy: the stream proxy *)

\* Needles that occur inside one token of the model's text.
InToken(w, t) ==
    \/ w = t
    \/ w = "resolve" /\ LowerTok(t) = "/resolve/"

\* `w in text` for a one-word needle.
In(w, text) == \E i \in 1..Len(text) : InToken(w, text[i])

ESSENTIAL_HEADERS == {"User-Agent", "Referer", "Origin", "Cookie", "Authorization"}

\* handle_proxy_request: combined_headers, the headers handed to get_extractor.
combined_headers(request) ==
    LET target_url == request.url
        hdrs == request.headers
        leaked(h) ==
            /\ Lower(h) \in {"referer", "origin"}
            /\ netloc(CIGet(hdrs, h)) # <<>>
            /\ netloc(target_url) # <<>>
            /\ netloc(CIGet(hdrs, h)) # netloc(target_url)
            /\ \/ In("torrentio", LowerText(target_url))
               \/ In("resolve", LowerText(target_url))
        taken == {h \in ESSENTIAL_HEADERS : CIHas(hdrs, h) /\ ~ leaked(h)}
    IN  [x \in taken \cup DOMAIN request.h |->
            IF x \in DOMAIN request.h THEN request.h[x] ELSE CIGet(hdrs, x)]

\* handle_proxy_request: the h_ query parameters override the descriptor's
\* headers, whatever the case of the names.
add_h_params(stream_headers, h) ==
    LET kept == {k \in DOMAIN stream_headers :
                    ~ \E n \in DOMAIN h : Lower(n) = Lower(k)}
    IN  [x \in kept \cup DOMAIN h |->
            IF x \in DOMAIN h THEN h[x] ELSE stream_headers[x]]

CANONICAL == [x \in {"user-agent", "referer", "origin", "authorization", "cookie"} |->
    CASE x = "user-agent" -> "User-Agent"
      [] x = "referer" -> "Referer"
      [] x = "origin" -> "Origin"
      [] x = "authorization" -> "Authorization"
      [] x = "cookie" -> "Cookie"]

\* _proxy_stream: the canonical spelling User-Agent, Referer, Origin,
\* Authorization, Cookie for keys that lower-case to one of them.
normalize_headers(headers) ==
    LET canon(k) == IF Lower(k) \in DOMAIN CANONICAL THEN CANONICAL[Lower(k)] ELSE k
    IN  [x \in {canon(k) : k \in DOMAIN headers} |->
            headers[CHOOSE k \in DOMAIN headers : canon(k) = x]]

IP_HEADERS == {"x-forwarded-for", "x-real-ip", "forwarded", "via"}

\* _proxy_stream's filter of the headers that reveal the client address.
strip_ip_headers(headers) == Del(headers, IP_HEADERS)

\* _proxy_stream: the headers of the upstream GET.
proxy_stream_headers(request, stream_url, stream_headers) ==
    LET passed == IF is_redirector(stream_url) THEN {}
                  ELSE {h \in {"range", "if-none-match", "if-modified-since"} :
                           CIHas(request.headers, h)}
        h1 == [x \in (DOMAIN stream_headers) \cup passed |->
                  IF x \in passed THEN CIGet(request.headers, x)
                  ELSE stream_headers[x]]
        h2 == strip_ip_headers(h1)
        h3 == IF \E k \in DOMAIN h2 : Lower(k) = "user-agent" THEN h2
              ELSE Put(h2, "User-Agent", DEFAULT_USER_AGENT)
    IN  normalize_headers(h3)

\* _proxy_stream: the outbound proxy of the upstream GET (random.choice).
proxy_stream_proxy(stream_url) ==
    IF Len(GLOBAL_PROXIES) > 0 THEN Range(GLOBAL_PROXIES) ELSE {None}

\* An upstream request: `n` is its place among those of one handler step.
\* Only the handshake GET of the generic extractor passes
\* allow_redirects=False; the others follow redirects.
UpstreamN(n, kind, url, headers, via) ==
    [n |-> n, kind |-> kind, url |-> url, headers |-> headers, via |-> via,
     allow_redirects |-> (kind # "handshake")]

Upstream(kind, url, headers, via) == UpstreamN(1, kind, url, headers, via)

\* What the origin answers, or the exception that ends the exchange:
\*   ClientConnectorError     the connection to the origin cannot be made
\*   TimeoutError             asyncio.TimeoutError: the origin is too slow
\*   ServerDisconnectedError  the origin closes before it answers
\*   ClientPayloadError       the origin closes in the middle of the body
\*   ConnectionResetError     the client is gone when a chunk is written
StreamOutcomes ==
    {"ok", "http_error", "ClientConnectorError", "TimeoutError",
     "ServerDisconnectedError", "ClientPayloadError", "ConnectionResetError"}

\* The side of the proxy an outcome is a failure of.
failure_side(outcome) ==
    CASE outcome \in {"ClientConnectorError", "TimeoutError",
                      "ServerDisconnectedError", "ClientPayloadError"} -> "upstream"
      [] outcome = "ConnectionResetError" -> "client"
      [] OTHER -> "none"

\* The classes of the first except clause of _proxy_stream,
\* (ClientPayloadError, ConnectionResetError, OSError), with their
\* subclasses: ClientConnectorError derives from OSError through
\* ClientOSError.
CLIENT_DISCONNECT_ERRORS ==
    {"ClientPayloadError", "ConnectionResetError", "ClientConnectorError"}

\* The classes of the second clause,
\* (ServerDisconnectedError, ClientConnectionError, asyncio.TimeoutError).
UPSTREAM_ERRORS == {"ServerDisconnectedError", "TimeoutError"}

\* _proxy_stream: the statuses the response can have for each outcome; the
\* except clauses are tried in order.  asyncio.TimeoutError is the builtin
\* TimeoutError, a subclass of OSError, from Python 3.11 on, and a class of
\* its own before: the first clause takes it in the one, the second in the
\* other.
proxy_stream_status(outcome) ==
    CASE outcome = "ok" -> {200}
      [] outcome = "http_error" -> {404}
      [] outcome = "TimeoutError" -> {499, 502}
      [] outcome \in CLIENT_DISCONNECT_ERRORS -> {499}
      [] outcome \in UPSTREAM_ERRORS -> {502}
      [] OTHER -> {500}


-----------------------------------------------------------------------------
(* Bounds and inputs *)

MaxTasks == 1       \* handler tasks that may be suspended at once

TaskIds == 1..MaxTasks

U_hls == <<"o1", "/", "live", ".m3u8">>
U_redir == <<"o1", "/resolve/", "x">>
U_site == <<"vavoo.to", "/", "ch">>
U_mpd == <<"o2", "/", "m", ".mpd">>
U_final == <<"o3", "/", "final", ".m3u8">>
U_cdn == <<"cdn", "/", "v", ".m3u8">>
U_site_dash == <<"vavoo.to", "/", "dash">>
U_cdn_mpd == <<"cdn", "/", "v", ".mpd">>

Dict1(k, v) == [x \in {k} |-> v]

\* (client request headers, h_ query parameters) of a request.
HI_none == [headers |-> EmptyDict, h |-> EmptyDict]
HI_a == [headers |-> Dict1("Cookie", <<"a">>), h |-> EmptyDict]
HI_b == [headers |-> Dict1("Cookie", <<"b">>), h |-> EmptyDict]
HI_xff == [headers |-> EmptyDict, h |-> Dict1("X-Forwarded-For", <<"ip">>)]
HI_lower == [headers |-> Dict1("X-Forwarded-For", <<"ip">>),
             h |-> Dict1("x-forwarded-for", <<"ip">>)]

\* A cookie and a Range header from the client, and a conditional header as
\* h_ parameter.
HI_cond == [headers |-> [x \in {"Cookie", "Range"} |->
                           IF x = "Cookie" THEN <<"a">> ELSE <<"bytes">>],
            h |-> Dict1("If-None-Match", <<"etag">>)]

\* A Referer as h_ parameter, spelled unlike the descriptor's `referer`.
HI_ref == [headers |-> EmptyDict, h |-> Dict1("Referer", <<"own">>)]

HeaderInputs == {HI_none, HI_a, HI_b, HI_xff, HI_lower}

Req(url, hi, redirect_stream) ==
    [url |-> url, headers |-> hi.headers, h |-> hi.h,
     redirect_stream |-> redirect_stream]

\* The requests to the proxy entry (url or d, headers, h_*, redirect_stream).
ProxyRequests ==
    {Req(U_hls, hi, TRUE) : hi \in HeaderInputs}
    \cup {Req(U_hls, HI_a, FALSE), Req(U_mpd, HI_xff, TRUE),
          Req(U_redir, HI_cond, TRUE), Req(U_site, HI_none, TRUE),
          Req(<<>>, HI_none, TRUE)}

\* Requests for a page of a site extractor: with and without an h_
\* parameter, resolving to an HLS or to a DASH manifest.
SiteRequests ==
    {Req(u, hi, TRUE) : u \in {U_site, U_site_dash}, hi \in {HI_none, HI_ref}}
    \cup {Req(U_site, HI_ref, FALSE)}

\* The requests to /extractor/video, with the host parameter.
ExtractorRequests ==
    {[request |-> Req(U_hls, hi, FALSE), host |-> None] : hi \in {HI_none, HI_a}}
    \cup {[request |-> Req(U_site, HI_none, FALSE), host |-> None],
          [request |-> Req(U_hls, HI_none, TRUE), host |-> "vavoo"],
          [request |-> Req(<<>>, HI_none, FALSE), host |-> None]}

\* What a request can supply as password: query api_password, header
\* x-api-password.
AuthInputs ==
    {[api_password |-> None, x_api_password |-> None],
     [api_password |-> "bad", x_api_password |-> None],
     [api_password |-> "pw", x_api_password |-> None],
     [api_password |-> None, x_api_password |-> "pw"]}

\* The configurations the process can start with.
Configs ==
    {[pw |-> None, routes |-> <<>>, pool |-> <<>>, mode |-> "legacy"],
     [pw |-> "pw",
      routes |-> <<[url |-> <<"o1">>, proxy |-> "P1", disable_ssl |-> FALSE]>>,
      pool |-> <<"P2">>, mode |-> "legacy"],
     [pw |-> "pw",
      routes |-> <<[url |-> <<"o2">>, proxy |-> None, disable_ssl |-> TRUE]>>,
      pool |-> <<"P2">>, mode |-> "ffmpeg"]}

ExtractorKeys ==
    {"vavoo", "dlhd", "vixsrc", "sportsonline", "mixdrop", "voe", "freeshot",
     "streamtape", "orion", "hls_generic"}

\* What a site extractor's extract() can do (the site extractors are
\* outside src/; only their interface is known).
ExtractOutcomes == {"ok", "ExtractorError", "Exception"}

SiteDescriptor ==
    [destination_url |-> U_cdn, request_headers |-> Dict1("referer", <<"vavoo.to">>)]

\* extract(url) of a site extractor: the page decides the manifest, and a
\* forced refresh resolves the same page.
site_descriptor(url) ==
    IF url = U_site_dash THEN [SiteDescriptor EXCEPT !.destination_url = U_cdn_mpd]
    ELSE SiteDescriptor

-----------------------------------------------------------------------------
(* State *)

\* What stays as it is while the process runs: its configuration, and the
\* behaviour of the origins it talks to.
configVars == <<API_PASSWORD, GLOBAL_PROXIES, TRANSPORT_ROUTES, MPD_MODE, origins>>

poolVars == <<session, proxy_sessions>>

segVars == <<segment_cache, init_cache, prefetch_tasks, prefetching, decrypting,
             now, ev>>

regVars == <<extractors, created, calls>>

\* What the client pool's and the MPD converter's steps leave behind.
obsVars == <<closing, acquired, mpd_request, playlist, returned>>

\* cleanup() has not run.
NotClosing == [pc |-> "idle", todo |-> {}]

NoAcquire ==
    [kind |-> "none", url |-> <<>>, proxy |-> None, via |-> None,
     state |-> "none", should_close |-> FALSE, created |-> FALSE,
     failed |-> FALSE, before |-> EmptyDict]

NoMpdRequest == [kind |-> "none"]

NoPlaylist == [kind |-> "none", lines |-> <<>>, segments |-> <<>>, windowed |-> <<>>]

NoCall == [fn |-> "none"]

InitObs ==
    /\ closing = NotClosing
    /\ acquired = NoAcquire
    /\ mpd_request = NoMpdRequest
    /\ playlist = NoPlaylist
    /\ returned = NoCall

NoRequest == [url |-> <<>>, headers |-> EmptyDict, h |-> EmptyDict,
              redirect_stream |-> FALSE]

Idle == [pc |-> "idle", handler |-> "none", request |-> NoRequest,
         key |-> "none", inst |-> 0, extract_calls |-> 0, extract_errors |-> 0]

\* `content_type` and `body` are the Content-Type and the kind of bytes of
\* a decrypt response ("ts": remuxed MPEG-TS, "fmp4": raw fMP4).
\* `outcome` is how the stream exchange ended; `handshakes` counts the
\* handshake GETs of the request, `header` and `location` are the Location
\* header of the latest attempt, `destination` the descriptor's
\* destination_url.
Resp(endpoint, status, pw_supplied) ==
    [endpoint |-> endpoint, status |-> status, pw_supplied |-> pw_supplied,
     extract_calls |-> 0, extract_errors |-> 0, forced |-> FALSE,
     generic |-> FALSE, url |-> <<>>, own |-> EmptyDict, descriptor |-> EmptyDict,
     outcome |-> "none", handshakes |-> 0, header |-> FALSE, location |-> <<>>,
     destination |-> <<>>, heartbeat |-> "none",
     content_type |-> "none", body |-> "none"]

NoResp == Resp("none", 0, FALSE)

InitConfig ==
    \E c \in Configs :
        /\ API_PASSWORD = c.pw
        /\ GLOBAL_PROXIES = c.pool
        /\ TRANSPORT_ROUTES = c.routes
        /\ MPD_MODE = c.mode

InitProxy ==
    /\ extractors = EmptyDict
    /\ created = [k \in ExtractorKeys |-> 0]
    /\ calls = [t \in TaskIds |-> Idle]
    /\ session = "unset"
    /\ proxy_sessions = EmptyDict
    /\ sent = {}
    /\ resp = NoResp
    /\ InitObs

\* Whether the request carries the configured password (query or header).
SuppliesPassword(request) ==
    \/ request.api_password = API_PASSWORD
    \/ request.x_api_password = API_PASSWORD

FreeTask(t) == calls[t].pc = "idle" /\ \A u \in TaskIds : u < t => calls[u].pc # "idle"

\* The task a new request runs as: the first idle one; with none idle the
\* request can still be served where it needs no await.
NewTask(t) ==
    IF \E u \in TaskIds : calls[u].pc = "idle" THEN FreeTask(t) ELSE t = 1


-----------------------------------------------------------------------------
(* handle_proxy_request and handle_extractor_request *)

is_mpd_url(stream_url) ==
    In(".mpd", stream_url) \/ In("dash", LowerText(stream_url))

\* The rest of a handler once extract() has returned `desc`: the response
\* and the upstream request it makes.  `r` carries the bookkeeping of the
\* request (extract calls made, the descriptor) into resp.
Finish(handler, request, desc, via_retry, r0) ==
    LET stream_url == desc.destination_url
        overridden == add_h_params(desc.request_headers, request.h)
        r == [r0 EXCEPT !.destination = stream_url]
    IN  IF handler = "extractor"
        THEN /\ resp' = [r EXCEPT !.status = IF request.redirect_stream THEN 302 ELSE 200]
             /\ sent' = {}
             /\ UNCHANGED poolVars
        ELSE IF ~ via_retry /\ ~ request.redirect_stream
        THEN /\ resp' = [r EXCEPT !.status = 200]
             /\ sent' = {}
             /\ UNCHANGED poolVars
        ELSE IF ~ via_retry /\ is_mpd_url(stream_url) /\ MPD_MODE = "ffmpeg"
        THEN \* ffmpeg_manager.get_stream: the transcoder fetches the stream
             /\ \E st \in {200, 502} : resp' = [r EXCEPT !.status = st]
             /\ sent' = {}
             /\ UNCHANGED poolVars
        ELSE IF ~ via_retry /\ is_mpd_url(stream_url)
        THEN \* legacy mode: the MPD is fetched through the client pool
             \E g \in get_proxy_session(stream_url), st \in {200, 502, 500} :
                /\ resp' = [r EXCEPT !.status = st]
                /\ sent' = {Upstream("mpd", stream_url, overridden, g.via)}
                /\ session' = g.session
                /\ proxy_sessions' = g.proxy_sessions
        ELSE \E via \in proxy_stream_proxy(stream_url) :
                IF via \in BadProxies
                THEN \* session.get(proxy=...) raises before a request is made
                     /\ resp' = [r EXCEPT !.status = 500, !.outcome = "ValueError"]
                     /\ sent' = {}
                     /\ UNCHANGED poolVars
                ELSE \E o \in origins.stream : \E st \in proxy_stream_status(o) :
                     /\ resp' = [r EXCEPT !.status = st, !.outcome = o]
                     /\ sent' = {Upstream("stream", stream_url,
                                          proxy_stream_headers(request, stream_url,
                                             IF via_retry THEN desc.request_headers
                                             ELSE overridden),
                                          via)}
                     /\ UNCHANGED poolVars

\* GenericHLSExtractor._get_session: the session is made once, through a
\* random member of the instance's proxies (or directly).
generic_session(inst) ==
    IF inst.session # "unset" THEN {inst.session}
    ELSE IF Len(inst.proxies) > 0 THEN Range(inst.proxies) ELSE {None}

\* check_password fails: 401, and the handler returns.
Rejected(handler) ==
    /\ (\E auth \in AuthInputs : ~ check_password(auth)) = TRUE
    /\ resp' = Resp(handler, 401, FALSE)
    /\ sent' = {}
    /\ UNCHANGED <<extractors, created, calls, poolVars>>

\* The entry of both handlers past the password check, up to the first
\* await that suspends: get_extractor and the start of extract().
Enter(t, handler, request, host) ==
    LET hdrs == IF handler = "proxy" THEN combined_headers(request)
                ELSE request.headers
    IN
    /\ (\E auth \in AuthInputs : check_password(auth)) = TRUE
    /\ IF request.url = <<>>
       THEN /\ resp' = Resp(handler, IF handler = "proxy" THEN 400 ELSE 200,
                            API_PASSWORD # None)
            /\ sent' = {}
            /\ UNCHANGED <<extractors, created, calls, poolVars>>
       ELSE
       \E proxies \in extractor_proxies(request.url, host) :
         \E g \in {get_extractor(request.url, hdrs, host, proxies)} :
         LET inst == g.extractors[g.key]
             r == [Resp(handler, 0, API_PASSWORD # None) EXCEPT
                     !.extract_calls = 1, !.url = request.url, !.own = hdrs]
         IN
         /\ created' = g.created
         /\ IF g.key # "hls_generic"
            THEN \* a site extractor: extract() awaits its own upstream calls
                 /\ FreeTask(t)
                 /\ extractors' = g.extractors
                 /\ calls' = [calls EXCEPT ![t] =
                       [pc |-> "extract", handler |-> handler, request |-> request,
                        key |-> g.key, inst |-> inst.id,
                        extract_calls |-> 1, extract_errors |-> 0]]
                 /\ resp' = r
                 /\ sent' = {}
                 /\ UNCHANGED poolVars
            ELSE IF is_redirector(request.url)
            THEN \E via \in generic_session(inst) :
                 IF via \in BadProxies
                 THEN \* _get_session raises in ProxyConnector.from_url: the
                      \* outer except clause, then the pass-through descriptor
                      /\ extractors' = g.extractors
                      /\ UNCHANGED calls
                      /\ Finish(handler, request,
                                [destination_url |->
                                    handshake_destination(request.url, <<>>),
                                 request_headers |->
                                    extract_headers(inst.request_headers, request.url)],
                                FALSE,
                                [r EXCEPT !.generic = TRUE,
                                          !.descriptor =
                                             extract_headers(inst.request_headers,
                                                             request.url)])
                 ELSE \* the generic extractor starts the handshake GET
                      /\ FreeTask(t)
                      /\ extractors' = [g.extractors EXCEPT ![g.key].session = via]
                      /\ sent' = {Upstream("handshake", request.url,
                                           resolution_headers, via)}
                      /\ calls' = [calls EXCEPT ![t] =
                            [pc |-> "handshake1", handler |-> handler,
                             request |-> request,
                             key |-> g.key, inst |-> inst.id,
                             extract_calls |-> 1, extract_errors |-> 0]]
                      /\ resp' = [r EXCEPT !.generic = TRUE, !.handshakes = 1]
                      /\ UNCHANGED poolVars
            ELSE \* the generic extractor returns without suspending
                 /\ extractors' = g.extractors
                 /\ UNCHANGED calls
                 /\ Finish(handler, request,
                           [destination_url |-> request.url,
                            request_headers |->
                               extract_headers(inst.request_headers, request.url)],
                           FALSE,
                           [r EXCEPT !.generic = TRUE,
                                     !.descriptor =
                                        extract_headers(inst.request_headers,
                                                        request.url)])

\* GET /proxy/hls/manifest.m3u8, /proxy/mpd/manifest.m3u8, /proxy/stream
proxy_request(t, requests) ==
    /\ NewTask(t)
    /\ \/ Rejected("proxy")
       \/ \E request \in requests : Enter(t, "proxy", request, None)
    /\ UNCHANGED <<configVars, obsVars, segVars, segVars>>

handle_proxy_request(t) == proxy_request(t, ProxyRequests)

\* GET /extractor/video
handle_extractor_request(t) ==
    /\ NewTask(t)
    /\ \/ Rejected("extractor")
       \/ \E e \in ExtractorRequests : Enter(t, "extractor", e.request, e.host)
    /\ UNCHANGED <<configVars, obsVars, segVars, segVars>>

\* The bookkeeping of a suspended request, for resp.
Book(c) ==
    [Resp(c.handler, 0, API_PASSWORD # None) EXCEPT
        !.extract_calls = c.extract_calls,
        !.extract_errors = c.extract_errors,
        !.forced = (c.extract_calls = 2),
        !.url = c.request.url,
        !.own = IF c.handler = "proxy" THEN combined_headers(c.request)
                ELSE c.request.headers]

\* An exception that reaches the handler's outermost except clause.
Fails(c, r) ==
    /\ \E st \in IF c.handler = "proxy" THEN {500, 503} ELSE {500} :
          resp' = [r EXCEPT !.status = st]
    /\ sent' = {}
    /\ UNCHANGED poolVars

\* A site extractor's first extract() returns or raises.
ExtractReturns(t) ==
    LET c == calls[t] IN
    /\ c.pc = "extract"
    /\ \E o \in ExtractOutcomes :
        IF o = "ok"
        THEN /\ calls' = [calls EXCEPT ![t] = Idle]
             /\ Finish(c.handler, c.request, site_descriptor(c.request.url), FALSE, Book(c))
        ELSE IF o = "ExtractorError" /\ c.handler = "proxy"
        THEN \* except ExtractorError: extract(target_url, force_refresh=True)
             /\ calls' = [calls EXCEPT ![t].pc = "retry",
                                       ![t].extract_calls = 2,
                                       ![t].extract_errors = 1]
             /\ resp' = [Book(c) EXCEPT !.extract_calls = 2, !.extract_errors = 1,
                                        !.forced = TRUE]
             /\ sent' = {}
             /\ UNCHANGED poolVars
        ELSE /\ calls' = [calls EXCEPT ![t] = Idle]
             /\ Fails(c, [Book(c) EXCEPT !.extract_errors =
                             IF o = "ExtractorError" THEN 1 ELSE 0])
    /\ UNCHANGED <<configVars, obsVars, segVars, extractors, created>>

\* The second extract() of handle_proxy_request returns or raises.
RetryReturns(t) ==
    LET c == calls[t] IN
    /\ c.pc = "retry"
    /\ calls' = [calls EXCEPT ![t] = Idle]
    /\ \E o \in ExtractOutcomes :
        IF o = "ok"
        THEN Finish(c.handler, c.request, site_descriptor(c.request.url), TRUE, Book(c))
        ELSE Fails(c, [Book(c) EXCEPT !.extract_errors =
                          IF o = "ExtractorError" THEN 2 ELSE 1])
    /\ UNCHANGED <<configVars, obsVars, segVars, extractors, created>>

\* The Location values of the model: an absolute URL, an absolute path,
\* a relative path whose first segment begins with "http", and the empty
\* string.
L_path == <<"/", "final", ".m3u8">>
L_relative == <<"httpdocs", "/", "final", ".m3u8">>

Locations == {U_final, L_path, L_relative, <<>>}

\* What a handshake GET can give: a 3xx with a Location header, another
\* answer, or an exception (timeout, connection error).
HandshakeOutcomes ==
    {[kind |-> "location", location |-> l] : l \in Locations}
    \cup {[kind |-> k, location |-> <<>>] : k \in {"status", "error"}}

GenericDescriptor(c, destination_url) ==
    [destination_url |-> destination_url,
     request_headers |->
        extract_headers(extractors[c.key].request_headers, c.request.url)]

\* The bookkeeping of a request in its n-th handshake attempt, which
\* ended as `o`.
GenericBook(c, n, o) ==
    [Book(c) EXCEPT !.generic = TRUE,
                    !.descriptor =
                       extract_headers(extractors[c.key].request_headers,
                                       c.request.url),
                    !.handshakes = n,
                    !.header = (o.kind = "location"),
                    !.location = o.location]

\* The generic extractor's first handshake GET ends.
HandshakeReturns(t) ==
    LET c == calls[t] IN
    /\ c.pc = "handshake1"
    /\ \E o \in origins.handshake :
        IF o.location = <<>> /\ Len(extractors[c.key].proxies) > 0
        THEN \* attempt 2: a direct session
             /\ calls' = [calls EXCEPT ![t].pc = "handshake2"]
             /\ sent' = {Upstream("handshake", c.request.url,
                                  resolution_headers, None)}
             /\ resp' = [GenericBook(c, 1, o) EXCEPT !.handshakes = 2]
             /\ UNCHANGED poolVars
        ELSE /\ calls' = [calls EXCEPT ![t] = Idle]
             /\ Finish(c.handler, c.request,
                       GenericDescriptor(c, handshake_destination(c.request.url,
                                                                  o.location)),
                       FALSE, GenericBook(c, 1, o))
    /\ UNCHANGED <<configVars, obsVars, segVars, extractors, created>>

\* The direct fallback handshake GET ends.
Handshake2Returns(t) ==
    LET c == calls[t] IN
    /\ c.pc = "handshake2"
    /\ calls' = [calls EXCEPT ![t] = Idle]
    /\ \E o \in origins.handshake :
        Finish(c.handler, c.request,
               GenericDescriptor(c, handshake_destination(c.request.url,
                                                          o.location)),
               FALSE, GenericBook(c, 2, o))
    /\ UNCHANGED <<configVars, obsVars, segVars, extractors, created>>

-----------------------------------------------------------------------------
(* HLSProxy: segment cache, init cache and prefetch set *)

segment_cache_ttl == 30

\* handle_decrypt_segment keeps at most CACHE_MAX entries: when an insert
\* leaves more, the EVICT_COUNT oldest go.
CACHE_MAX == 50

EVICT_COUNT == 20

\* _prefetch_next_segments: range(1, 4) stops before PREFETCH_STOP.
PREFETCH_STOP == 4

\* The clock advances in steps of TickStep up to MaxTime.
TickStep == 15

MaxTime == 30

\* Concurrent decrypt requests.
MaxDecrypts == 2

DecryptIds == 1..MaxDecrypts

Digits == <<"0", "1", "2", "3", "4", "5", "6", "7", "8", "9">>

IsDigits(tok) == \E i \in 1..Len(Digits) : Digits[i] = tok

\* int(current_number) and str(next_num); the numbers of the model have one digit.
ToInt(tok) == (CHOOSE i \in 1..Len(Digits) : Digits[i] = tok) - 1

ToStr(n) == Digits[n + 1]

Extensions == {".m4s", ".mp4", ".ts", ".m3u8", ".mpd", ".bin"}

U_seg(n) == <<"o1", "/", "seg", "-", ToStr(n), ".m4s">>

U_init == <<"o1", "/", "init", ".mp4">>

KID == <<"kid">>

\* cache_key = f"{url}:{key_id}:ts"
ts_cache_key(url, key_id) == url \o <<":">> \o key_id \o <<":", "ts">>

\* cache_key = f"{next_url}:{key_id}"
prefetch_cache_key(next_url, key_id) == next_url \o <<":">> \o key_id

\* re.search(r'([-_])(\d+)(\.[^.]+)$', path)
has_numeric_suffix(url) ==
    /\ Len(url) >= 3
    /\ url[Len(url) - 2] \in {"-", "_"}
    /\ IsDigits(url[Len(url) - 1])
    /\ url[Len(url)] \in Extensions

\* The URL with its number replaced by current_num + i.
next_url(url, i) == [url EXCEPT ![Len(url) - 1] = ToStr(ToInt(@) + i)]

CacheKeys(cache) == {cache[i].key : i \in 1..Len(cache)}

CacheIndex(cache, k) == CHOOSE i \in 1..Len(cache) : cache[i].key = k

\* self.segment_cache[cache_key] = (content, time.time()): a key the dict
\* holds keeps its place.
cache_put(cache, k, content, t) ==
    LET e == [key |-> k, content |-> content, time |-> t]
    IN  IF k \in CacheKeys(cache)
        THEN [cache EXCEPT ![CacheIndex(cache, k)] = e]
        ELSE Append(cache, e)

cache_del(cache, ks) ==
    LET gone == ks IN SelectSeq(cache, LAMBDA e : e.key \notin gone)

\* sorted(self.segment_cache.keys(), key=time)[:20]: the sort is stable, so
\* entries of equal time keep dict order.
oldest_keys(cache) ==
    LET n == Len(cache)
        times == [i \in 1..n |-> cache[i].time]
        rank == [i \in 1..n |->
                   Cardinality({j \in 1..n : \/ times[j] < times[i]
                                             \/ times[j] = times[i] /\ j < i})]
    IN  {cache[i].key : i \in {i \in 1..n : rank[i] < EVICT_COUNT}}

\* "Clean old cache entries (keep max 50)"
clean_cache(cache) ==
    IF Len(cache) > CACHE_MAX THEN cache_del(cache, oldest_keys(cache)) ELSE cache

\* The TTL test with `<=`.
cache_fresh_inclusive(cached_time) == now - cached_time <= segment_cache_ttl

\* time.time() - cached_time < self.segment_cache_ttl
cache_fresh(cached_time) == now - cached_time < segment_cache_ttl

\* A prefetch started for every next segment.
should_prefetch_always(cache_key, cache, pending) == TRUE

\* cache_key not in self.segment_cache and cache_key not in self.prefetch_tasks
should_prefetch(cache_key, cache, pending) ==
    cache_key \notin CacheKeys(cache) /\ cache_key \notin pending

\* The cache with no eviction.
store_segment_unbounded(cache, k, content) == cache_put(cache, k, content, now)

\* handle_decrypt_segment: "Store in cache" and "Clean old cache entries".
store_segment(cache, k, content) == clean_cache(cache_put(cache, k, content, now))

\* The decrypt requests of the model.
DecryptRequests ==
    {[url |-> U_seg(1), init_url |-> U_init, key |-> "k", key_id |-> KID,
      h |-> EmptyDict],
     [url |-> U_seg(1), init_url |-> U_init, key |-> None, key_id |-> KID,
      h |-> EmptyDict]}

NoDecryptRequest ==
    [url |-> <<>>, init_url |-> <<>>, key |-> None, key_id |-> <<>>, h |-> EmptyDict]

IdleDecrypt == [pc |-> "idle", request |-> NoDecryptRequest, init_pending |-> FALSE]

\* What a step of the segment pipeline did: the cache key it looked up or
\* stored, the age of the entry it found (-1: none), whether decrypt and
\* remux ran, the prefetch tasks it started and the entries its store
\* took out of the cache.
Ev(kind, key) ==
    [kind |-> kind, key |-> key, age |-> -1, pipeline |-> FALSE,
     init_ok |-> FALSE, seg_ok |-> FALSE, next |-> {}, spawned |-> {},
     evicted |-> {}, init_outcome |-> "none", seg_outcome |-> "none"]

\* How a download of fetch_init / fetch_segment ends: the status of the
\* answer, a timeout of the request, or another client error.
FetchOutcomes == {"200", "404", "TimeoutError", "ClientError"}

\* fetch_result with the body of an error answer returned as content.
fetch_result_any_status(outcome) ==
    IF outcome \in {"200", "404"} THEN "content" ELSE None

\* What fetch_init / fetch_segment return: the body on a 200, None on
\* another status and on an exception.
fetch_result(outcome) == IF outcome = "200" THEN "content" ELSE None

NoEv == Ev("none", <<>>)

InitSeg ==
    /\ init_cache = {}
    /\ prefetch_tasks = {}
    /\ prefetching = EmptyBag
    /\ decrypting = [d \in DecryptIds |-> IdleDecrypt]
    /\ ev = NoEv

\* A cache entry left by an earlier decrypt request.
Filler(i, t) ==
    [key |-> ts_cache_key(<<"o9", Digits[(i \div 10) + 1], Digits[(i % 10) + 1]>>,
                          KID),
     content |-> "ts", time |-> t]

\* Caches near capacity at time TickStep: entries stored at time 0, the
\* first of them stored again by a concurrent request at TickStep.
WarmCaches ==
    {[i \in 1..n |-> Filler(i, IF i = 1 THEN TickStep ELSE 0)] :
        n \in {CACHE_MAX - 1, CACHE_MAX}}

-----------------------------------------------------------------------------
(* The stream proxy and the extractor registry *)

\* The origins of the runs.  The ordinary ones answer, with the stream or
\* with an error status; a redirector answers with an absolute Location,
\* with another status, or not at all.
PlainOrigin ==
    [fetch |-> {"200", "404"},
     stream |-> {"ok", "http_error"},
     handshake |-> {o \in HandshakeOutcomes :
                      o.kind = "location" => o.location = U_final}]

\* Redirectors that answer with every Location of the model.
RedirectorOrigin ==
    [fetch |-> {"200"}, stream |-> {"ok"}, handshake |-> HandshakeOutcomes]

\* Origins whose exchange ends in each of the ways of StreamOutcomes.
FailingOrigin ==
    [fetch |-> {"200", "404"},
     stream |-> StreamOutcomes,
     handshake |-> {o \in HandshakeOutcomes : o.kind = "status"}]

\* Origins whose init and segment downloads end in each of the ways of
\* FetchOutcomes.
FetchOrigin ==
    [fetch |-> FetchOutcomes,
     stream |-> {"ok"},
     handshake |-> {o \in HandshakeOutcomes : o.kind = "status"}]

vars == <<API_PASSWORD, GLOBAL_PROXIES, TRANSPORT_ROUTES, MPD_MODE, origins,
          extractors, created, calls, session, proxy_sessions,
          segment_cache, init_cache, prefetch_tasks, prefetching, decrypting,
          now, ev, sent, resp, closing, acquired, mpd_request, playlist, returned>>

Init ==
    /\ InitConfig
    /\ origins = PlainOrigin
    /\ InitProxy
    /\ InitSeg
    /\ segment_cache = <<>>
    /\ now = 0

\* The process some time after start, its segment cache near capacity.
\* The cache fills only where decrypt_segment is loaded (legacy mode); the
\* cache steps read nothing else of the configuration, which is the first.
InitWarm ==
    /\ InitConfig
    /\ origins = PlainOrigin
    /\ MPD_MODE = "legacy"
    /\ API_PASSWORD = None
    /\ InitProxy
    /\ InitSeg
    /\ segment_cache \in WarmCaches
    /\ now = TickStep

NextProxy ==
    \E t \in TaskIds :
        \/ handle_proxy_request(t)
        \/ handle_extractor_request(t)
        \/ ExtractReturns(t)
        \/ RetryReturns(t)
        \/ HandshakeReturns(t)
        \/ Handshake2Returns(t)

SpecProxy == Init /\ [][NextProxy]_vars

\* The proxy pools of the handshake runs: none, a proxy, and a malformed
\* proxy URI, for which the extractor's _get_session raises.
HandshakePools == {<<>>, <<"P2">>, <<"bad://">>}

InitHandshake ==
    /\ API_PASSWORD = None
    /\ MPD_MODE = "legacy"
    /\ TRANSPORT_ROUTES = <<>>
    /\ GLOBAL_PROXIES \in HandshakePools
    /\ origins = RedirectorOrigin
    /\ InitProxy
    /\ InitSeg
    /\ segment_cache = <<>>
    /\ now = 0

SpecHandshake == InitHandshake /\ [][NextProxy]_vars

InitStream ==
    /\ API_PASSWORD = None
    /\ MPD_MODE = "legacy"
    /\ TRANSPORT_ROUTES = <<>>
    /\ GLOBAL_PROXIES = <<"P2">>
    /\ origins = FailingOrigin
    /\ InitProxy
    /\ InitSeg
    /\ segment_cache = <<>>
    /\ now = 0

SpecStream == InitStream /\ [][NextProxy]_vars

\* Requests for the pages of a site extractor, whose extract() can raise
\* ExtractorError and succeed when retried.
NextSite ==
    \E t \in TaskIds :
        \/ proxy_request(t, SiteRequests)
        \/ ExtractReturns(t)
        \/ RetryReturns(t)

SpecSite == Init /\ [][NextSite]_vars


-----------------------------------------------------------------------------
(* Key, license and segment relay *)

U_key == <<"o1", "/", "k", ".bin">>
U_hb == <<"o1", "/", "heartbeat">>
U_lic == <<"lic", "/", "wv">>
U_ts == <<"o1", "/", "s", "-", "1", ".ts">>

\* header_name = param_name[2:].replace('_', '-') on the names of the model.
Dash(name) ==
    CASE name = "Heartbeat_Url" -> "Heartbeat-Url"
      [] name = "X_Client_Token" -> "X-Client-Token"
      [] OTHER -> name

\* The h_ query parameters of a relay request.
RelayParams ==
    {EmptyDict,
     Dict1("X-Forwarded-For", <<"ip">>),
     Dict1("via", <<"proxy">>),
     Dict1("Range", <<"bytes">>),
     Dict1("Heartbeat_Url", U_hb),
     Dict1("heartbeat-url", U_hb),
     [x \in {"Heartbeat-Url", "Authorization"} |->
         IF x = "Heartbeat-Url" THEN U_hb ELSE <<"token">>]}

\* headers built from the h_ parameters by the key and license handlers.
relay_headers(h, drop_range) ==
    LET names == {n \in DOMAIN h : ~ (drop_range /\ Lower(Dash(n)) = "range")}
        built == [x \in {Dash(n) : n \in names} |->
                    h[CHOOSE n \in names : Dash(n) = x]]
    IN  IF \E k \in DOMAIN built : Lower(k) = "user-agent" THEN built
        ELSE Put(built, "User-Agent", DEFAULT_USER_AGENT)

Get(d, k, default) == IF k \in DOMAIN d THEN d[k] ELSE default

\* handle_key_request: the headers of the heartbeat GET.
hb_headers(headers, client_token) ==
    [x \in {"Authorization", "X-Channel-Key", "User-Agent", "Referer", "Origin",
            "X-Client-Token"} |->
        IF x = "X-Client-Token" THEN client_token
        ELSE IF x = "User-Agent" THEN Get(headers, x, DEFAULT_USER_AGENT)
        ELSE Get(headers, x, <<>>)]

\* GET /key.  The heartbeat GET sits in its own try / except Exception: it
\* answers (ok) or fails, and the key GET follows either way.
handle_key_request ==
    /\ \/ Rejected("key")
       \/ /\ (\E auth \in AuthInputs : check_password(auth)) = TRUE
          /\ \E q \in {"static_key", "bad_static_key", "none", "key_url"} :
             IF q # "key_url"
             THEN /\ resp' = Resp("key", IF q = "static_key" THEN 200 ELSE 400,
                                  API_PASSWORD # None)
                  /\ sent' = {}
                  /\ UNCHANGED <<extractors, created>>
             ELSE
             \E h \in RelayParams, orig \in {<<>>, U_hls},
                o \in {"ok", "http_error", "error"},
                hbo \in {"ok", "failed"},
                proxy \in get_proxy_for_url(U_key, TRANSPORT_ROUTES, GLOBAL_PROXIES),
                proxies \in extractor_proxies(U_hls, None) :
               LET built == relay_headers(h, TRUE)
                   heartbeat_url == Get(built, "Heartbeat-Url", <<>>)
                   client_token == Get(built, "X-Client-Token", <<>>)
                   headers == Del(built, {"Heartbeat-Url", "X-Client-Token"})
                   hb == IF heartbeat_url # <<>>
                         THEN {UpstreamN(1, "heartbeat", heartbeat_url,
                                         hb_headers(headers, client_token), proxy)}
                         ELSE {}
                   g == get_extractor(orig, EmptyDict, None, proxies)
               IN
               /\ sent' = hb \cup {UpstreamN(Cardinality(hb) + 1, "key", U_key,
                                             headers, proxy)}
               /\ resp' = [Resp("key",
                                CASE o = "ok" -> 200
                                  [] o = "http_error" -> 403
                                  [] o = "error" -> 500,
                                API_PASSWORD # None)
                            EXCEPT !.url = U_key, !.own = built,
                                   !.heartbeat = IF hb = {} THEN "none" ELSE hbo]
               /\ IF o = "http_error" /\ orig # <<>>
                  THEN \* automatic cache invalidation: get_extractor(url_param, {})
                       /\ extractors' = g.extractors
                       /\ created' = g.created
                  ELSE UNCHANGED <<extractors, created>>
          /\ UNCHANGED <<calls, poolVars>>
    /\ UNCHANGED <<configVars, obsVars, segVars, segVars>>

\* GET /license (the handler holds no password check)
handle_license_request ==
    /\ \E auth \in AuthInputs,
          q \in {"clearkey", "bad_clearkey", "none", "url"} :
         LET supplied == API_PASSWORD # None /\ SuppliesPassword(auth) IN
         IF q # "url"
         THEN /\ resp' = Resp("license", IF q = "clearkey" THEN 200 ELSE 400, supplied)
              /\ sent' = {}
         ELSE \E h \in RelayParams, st \in {200, 403, 500},
                 proxy \in proxy_stream_proxy(U_lic) :
                /\ sent' = {Upstream("license", U_lic, relay_headers(h, FALSE), proxy)}
                /\ resp' = Resp("license", st, supplied)
    /\ UNCHANGED <<configVars, obsVars, segVars, extractors, created, calls, poolVars>>

\* GET /segment/{name} (the handler holds no password check): the segment
\* is relayed by _proxy_segment.
handle_ts_segment ==
    /\ \E auth \in AuthInputs, base_url \in {<<>>, U_ts} :
         LET supplied == API_PASSWORD # None /\ SuppliesPassword(auth) IN
         IF base_url = <<>>
         THEN /\ resp' = Resp("segment", 400, supplied)
              /\ sent' = {}
         ELSE \E st \in {200, 404, 500}, proxy \in proxy_stream_proxy(base_url) :
                /\ sent' = {Upstream("segment", base_url,
                                     [x \in {"User-Agent", "Referer"} |->
                                         IF x = "Referer" THEN base_url
                                         ELSE DEFAULT_USER_AGENT],
                                     proxy)}
                /\ resp' = Resp("segment", st, supplied)
    /\ UNCHANGED <<configVars, obsVars, segVars, extractors, created, calls, poolVars>>

\* POST /generate_urls: the password may come in the JSON body.
handle_generate_urls ==
    /\ \E auth \in AuthInputs, body \in {None, "bad", "pw"} :
         LET ok == ~ (API_PASSWORD # None /\ body # API_PASSWORD
                      /\ ~ check_password(auth))
             supplied == API_PASSWORD # None
                         /\ (body = API_PASSWORD \/ SuppliesPassword(auth))
         IN  resp' = Resp("generate_urls", IF ok THEN 200 ELSE 401, supplied)
    /\ sent' = {}
    /\ UNCHANGED <<configVars, obsVars, segVars, extractors, created, calls, poolVars>>

NextRelay ==
    \/ handle_key_request
    \/ handle_license_request
    \/ handle_ts_segment
    \/ handle_generate_urls

SpecRelay == Init /\ [][NextRelay]_vars


-----------------------------------------------------------------------------
(* handle_decrypt_segment and the prefetch tasks *)

FreeDecrypt(d) ==
    /\ decrypting[d].pc = "idle"
    /\ \A u \in DecryptIds : u < d => decrypting[u].pc # "idle"

\* The task a new decrypt request runs as.
NewDecrypt(d) ==
    IF \E u \in DecryptIds : decrypting[u].pc = "idle" THEN FreeDecrypt(d) ELSE d = 1

\* handle_decrypt_segment: the headers of its upstream requests.
decrypt_headers(h) ==
    LET base == [x \in {"Connection", "Accept-Encoding"} |->
                    IF x = "Connection" THEN <<"keep-alive">> ELSE <<"identity">>]
    IN  [x \in DOMAIN base \cup {Dash(n) : n \in DOMAIN h} |->
            IF \E n \in DOMAIN h : Dash(n) = x
            THEN h[CHOOSE n \in DOMAIN h : Dash(n) = x]
            ELSE base[x]]

\* The keys _prefetch_next_segments looks at after `url` was served.
next_keys(url, key_id) ==
    IF has_numeric_suffix(url)
    THEN {prefetch_cache_key(next_url(url, i), key_id) : i \in 1..(PREFETCH_STOP - 1)}
    ELSE {}

\* The task asyncio.create_task(self._fetch_and_cache_segment(...)) starts.
PrefetchTask(url, i, request) ==
    [pc |-> "start", url |-> next_url(url, i), init_url |-> request.init_url,
     key |-> prefetch_cache_key(next_url(url, i), request.key_id),
     headers |-> decrypt_headers(request.h), init_ok |-> FALSE]

\* GET /decrypt/segment.mp4, up to the parallel download of init and segment.
handle_decrypt_segment(d) ==
    /\ NewDecrypt(d)
    /\ \/ /\ (\E auth \in AuthInputs : ~ check_password(auth)) = TRUE
          /\ resp' = Resp("decrypt", 401, FALSE)
          /\ sent' = {}
          /\ ev' = NoEv
          /\ UNCHANGED <<segment_cache, decrypting, poolVars>>
       \/ /\ (\E auth \in AuthInputs : check_password(auth)) = TRUE
          /\ \E request \in DecryptRequests :
             LET cache_key == ts_cache_key(request.url, request.key_id)
                 held == cache_key \in CacheKeys(segment_cache)
                 cached_time == segment_cache[CacheIndex(segment_cache, cache_key)].time
                 age == IF held THEN now - cached_time ELSE -1
             IN
             IF request.url = <<>> \/ request.key = None \/ request.key_id = <<>>
             THEN /\ resp' = Resp("decrypt", 400, API_PASSWORD # None)
                  /\ sent' = {}
                  /\ ev' = NoEv
                  /\ UNCHANGED <<segment_cache, decrypting, poolVars>>
             ELSE IF MPD_MODE # "legacy"
             THEN \* decrypt_segment is None
                  /\ resp' = Resp("decrypt", 503, API_PASSWORD # None)
                  /\ sent' = {}
                  /\ ev' = NoEv
                  /\ UNCHANGED <<segment_cache, decrypting, poolVars>>
             ELSE IF held /\ cache_fresh(cached_time)
             THEN \* Cache HIT
                  /\ resp' = [Resp("decrypt", 200, API_PASSWORD # None) EXCEPT
                                !.content_type = "video/MP2T",
                                !.body = segment_cache[CacheIndex(segment_cache,
                                                                  cache_key)].content]
                  /\ sent' = {}
                  /\ ev' = [Ev("hit", cache_key) EXCEPT !.age = age]
                  /\ UNCHANGED <<segment_cache, decrypting, poolVars>>
             ELSE
             /\ FreeDecrypt(d)
             /\ segment_cache' = IF held THEN cache_del(segment_cache, {cache_key})
                                 ELSE segment_cache
             /\ \E g \in get_proxy_session(request.url) :
                  LET init_pending == request.init_url # <<>>
                                      /\ request.init_url \notin init_cache
                      headers == decrypt_headers(request.h)
                  IN
                  /\ session' = g.session
                  /\ proxy_sessions' = g.proxy_sessions
                  /\ sent' = {Upstream("segment", request.url, headers, g.via)}
                            \cup IF init_pending
                                 THEN {Upstream("init", request.init_url, headers, g.via)}
                                 ELSE {}
                  /\ decrypting' = [decrypting EXCEPT ![d] =
                        [pc |-> "fetching", request |-> request,
                         init_pending |-> init_pending]]
             /\ resp' = Resp("decrypt", 0, API_PASSWORD # None)
             /\ ev' = [Ev("miss", cache_key) EXCEPT !.age = age]
    /\ UNCHANGED <<configVars, obsVars, regVars, init_cache, prefetch_tasks, prefetching, now>>

\* asyncio.gather(fetch_init(), fetch_segment()) returns.
DecryptFetched(d) ==
    LET c == decrypting[d]
        cache_key == ts_cache_key(c.request.url, c.request.key_id)
    IN
    /\ c.pc = "fetching"
    /\ \E io \in IF c.init_pending THEN origins.fetch ELSE {"none"},
          so \in origins.fetch :
        LET \* b"" without init_url, the cached init, or the download
            init_content == IF c.init_pending THEN fetch_result(io) ELSE "content"
            segment_content == fetch_result(so)
            init_ok == ~ (init_content = None /\ c.request.init_url # <<>>)
            seg_ok == segment_content # None
        IN
        /\ init_cache' = IF c.init_pending /\ io = "200"
                         THEN init_cache \cup {c.request.init_url} ELSE init_cache
        /\ ev' = [Ev("fetched", cache_key) EXCEPT !.init_ok = init_ok,
                                                  !.seg_ok = seg_ok,
                                                  !.init_outcome = io,
                                                  !.seg_outcome = so]
        /\ IF init_ok /\ seg_ok
           THEN \* loop.run_in_executor(None, decrypt_segment, ...)
                /\ decrypting' = [decrypting EXCEPT ![d].pc = "decrypting"]
                /\ resp' = Resp("decrypt", 0, API_PASSWORD # None)
           ELSE /\ decrypting' = [decrypting EXCEPT ![d] = IdleDecrypt]
                /\ resp' = Resp("decrypt", 502, API_PASSWORD # None)
    /\ sent' = {}
    /\ UNCHANGED <<configVars, obsVars, regVars, poolVars, segment_cache, prefetch_tasks,
                   prefetching, now>>

\* The Content-Type after the remux: `ts` is what is served, the output of
\* _remux_to_ts or, when that gave nothing, the raw fMP4.
content_type(ts) == IF ts = "fmp4" THEN "video/mp4" ELSE "video/MP2T"

\* decrypt_segment and _remux_to_ts return: the segment is stored, the
\* cache cleaned, the next segments prefetched and the response sent.
DecryptDone(d) ==
    LET c == decrypting[d]
        url == c.request.url
        cache_key == ts_cache_key(url, c.request.key_id)
    IN
    /\ c.pc = "decrypting"
    /\ decrypting' = [decrypting EXCEPT ![d] = IdleDecrypt]
    /\ \E o \in {"ts", "fmp4", "error"} :
        IF o = "error"
        THEN /\ resp' = Resp("decrypt", 500, API_PASSWORD # None)
             /\ ev' = [Ev("error", cache_key) EXCEPT !.pipeline = TRUE]
             /\ UNCHANGED <<segment_cache, prefetch_tasks, prefetching>>
        ELSE LET stored == store_segment(segment_cache, cache_key, o)
                 next == next_keys(url, c.request.key_id)
                 starts == IF has_numeric_suffix(url)
                           THEN {i \in 1..(PREFETCH_STOP - 1) :
                                   should_prefetch(
                                      prefetch_cache_key(next_url(url, i),
                                                         c.request.key_id),
                                      stored, prefetch_tasks)}
                           ELSE {}
                 tasks == {PrefetchTask(url, i, c.request) : i \in starts}
             IN  /\ segment_cache' = stored
                 /\ prefetch_tasks' = prefetch_tasks \cup {t.key : t \in tasks}
                 /\ prefetching' = prefetching (+) SetToBag(tasks)
                 /\ resp' = [Resp("decrypt", 200, API_PASSWORD # None) EXCEPT
                               !.content_type = content_type(o), !.body = o]
                 /\ ev' = [Ev("stored", cache_key) EXCEPT
                             !.pipeline = TRUE, !.next = next,
                             !.spawned = {t.key : t \in tasks},
                             !.evicted =
                                {e \in Range(segment_cache) :
                                    e.key \notin CacheKeys(stored)}]
    /\ sent' = {}
    /\ UNCHANGED <<configVars, obsVars, regVars, poolVars, init_cache, now>>

\* The states a prefetch task of the model can be in.
PrefetchTaskStates ==
    {[PrefetchTask(r.url, i, r) EXCEPT !.pc = pc, !.init_ok = b] :
        r \in {q \in DecryptRequests : has_numeric_suffix(q.url)},
        i \in 1..(PREFETCH_STOP - 1), pc \in {"start", "init", "seg"},
        b \in BOOLEAN}

\* One task of the bag moves on.
Moved(task, after) == (prefetching (-) SetToBag({task})) (+) SetToBag({after})

\* _fetch_and_cache_segment starts: the shared direct session, then the
\* init download, or the segment download when the init is cached or absent.
\* A task is started only after its request's init went into init_cache,
\* which never loses an entry, so the init download is never taken.
PrefetchStart(task) ==
    /\ BagIn(task, prefetching)
    /\ task.pc = "start"
    /\ session' = get_session
    /\ IF task.init_url # <<>> /\ task.init_url \notin init_cache
       THEN /\ sent' = {Upstream("prefetch_init", task.init_url, task.headers, None)}
            /\ prefetching' = Moved(task, [task EXCEPT !.pc = "init"])
       ELSE /\ sent' = {Upstream("prefetch_segment", task.url, task.headers, None)}
            /\ prefetching' = Moved(task, [task EXCEPT !.pc = "seg", !.init_ok = TRUE])
    /\ ev' = Ev("prefetch", task.key)
    /\ resp' = NoResp
    /\ UNCHANGED <<configVars, obsVars, regVars, proxy_sessions, segment_cache, init_cache,
                   prefetch_tasks, decrypting, now>>

\* The end of a prefetch task without the finally clause: the key stays in
\* the pending set.
PrefetchSegDone_keeps_pending(task) ==
    /\ BagIn(task, prefetching)
    /\ task.pc = "seg"
    /\ ev' = [Ev("prefetch_end", task.key) EXCEPT !.init_ok = task.init_ok]
    /\ prefetching' = prefetching (-) SetToBag({task})
    /\ sent' = {}
    /\ resp' = NoResp
    /\ UNCHANGED <<configVars, obsVars, regVars, poolVars, init_cache, decrypting, now,
                   segment_cache, prefetch_tasks>>

\* The segment download of a prefetch task ends.  On a 200 the task
\* returns the body (`return await resp.read()`); otherwise segment_content
\* is still None and the store is skipped.  The finally clause takes the
\* key out of the pending set.
PrefetchSegDone(task) ==
    /\ BagIn(task, prefetching)
    /\ task.pc = "seg"
    /\ \E ok \in BOOLEAN :
        LET segment_content == None
        IN  /\ segment_cache' =
                  IF ~ ok /\ segment_content # None
                  THEN cache_put(segment_cache, task.key, "fmp4", now)
                  ELSE segment_cache
            /\ ev' = [Ev("prefetch_end", task.key) EXCEPT
                        !.init_ok = task.init_ok, !.seg_ok = ok]
    /\ prefetching' = prefetching (-) SetToBag({task})
    /\ prefetch_tasks' = prefetch_tasks \ {task.key}
    /\ sent' = {}
    /\ resp' = NoResp
    /\ UNCHANGED <<configVars, obsVars, regVars, poolVars, init_cache, decrypting, now>>

\* Time passes.
Tick ==
    /\ now + TickStep <= MaxTime
    /\ now' = now + TickStep
    /\ ev' = NoEv
    /\ sent' = {}
    /\ resp' = NoResp
    /\ UNCHANGED <<configVars, obsVars, regVars, poolVars, segment_cache, init_cache,
                   prefetch_tasks, prefetching, decrypting>>

NextSeg ==
    \/ \E d \in DecryptIds :
          \/ handle_decrypt_segment(d)
          \/ DecryptFetched(d)
          \/ DecryptDone(d)
    \/ \E task \in PrefetchTaskStates :
          \/ PrefetchStart(task)
          \/ PrefetchSegDone(task)
    \/ Tick

SpecSeg == Init /\ [][NextSeg]_vars

SpecWarm == InitWarm /\ [][NextSeg]_vars

\* The cache keys of the prefetch tasks of the model.
PrefetchKeys == {t.key : t \in PrefetchTaskStates}

\* The steps of the prefetch task of a cache key.
PrefetchStep(k) ==
    \E task \in PrefetchTaskStates :
        task.key = k /\ (PrefetchStart(task) \/ PrefetchSegDone(task))

\* The decrypt pipeline against origins whose downloads fail in every way.
InitFetch ==
    /\ API_PASSWORD = None
    /\ MPD_MODE = "legacy"
    /\ TRANSPORT_ROUTES = <<>>
    /\ GLOBAL_PROXIES = <<>>
    /\ origins = FetchOrigin
    /\ InitProxy
    /\ InitSeg
    /\ segment_cache = <<>>
    /\ now = 0

SpecFetch == InitFetch /\ [][NextSeg]_vars

\* The segment pipeline with its scheduling, against the same origins: the
\* event loop runs every task that is ready, and the downloads of a
\* prefetch task end, with an answer, with an error or by their timeout
\* (ClientTimeout(total=10), ClientTimeout(total=15)).
SpecSegLive ==
    InitFetch /\ [][NextSeg]_vars /\ \A k \in PrefetchKeys : WF_vars(PrefetchStep(k))

-----------------------------------------------------------------------------
(* utils/mpd_converter.py: MPDToHLSConverter.convert_media_playlist *)

\* str.split(sep) on a text of tokens: the pieces between the separators.
RECURSIVE Split(_, _)
Split(s, sep) ==
    IF \A i \in 1..Len(s) : s[i] # sep THEN <<s>>
    ELSE LET i == Min({j \in 1..Len(s) : s[j] = sep})
         IN  <<SubSeq(s, 1, i - 1)>> \o Split(SubSeq(s, i + 1, Len(s)), sep)

\* sep.join(parts)
RECURSIVE Join(_, _)
Join(parts, sep) ==
    IF Len(parts) = 0 THEN <<>>
    ELSE IF Len(parts) = 1 THEN parts[1]
    ELSE parts[1] \o <<sep>> \o Join(Tail(parts), sep)

\* str.strip(): without the blanks at its ends.
RECURSIVE Strip(_)
Strip(s) ==
    IF Len(s) > 0 /\ s[1] = " " THEN Strip(Tail(s))
    ELSE IF Len(s) > 0 /\ s[Len(s)] = " " THEN Strip(SubSeq(s, 1, Len(s) - 1))
    ELSE s

\* An ISO 8601 duration attribute: `pt` says whether the text begins with
\* PT, h, m, s are the numbers before H, M and S (-1: that part is absent).
Duration(pt, h, m, s) == [pt |-> pt, h |-> h, m |-> m, s |-> s]

NoDuration == Duration(FALSE, -1, -1, -1)

\* _parse_iso8601: seconds; 0 for a text the pattern does not match.
parse_iso8601(duration_str) ==
    LET or0(x) == IF x = -1 THEN 0 ELSE x
    IN  IF duration_str = NoDuration \/ ~ duration_str.pt THEN 0
        ELSE or0(duration_str.h) * 3600 + or0(duration_str.m) * 60
             + or0(duration_str.s)

\* The DVR window used when timeShiftBufferDepth is absent, in seconds.
DEFAULT_DVR_WINDOW == 180

\* The number of newest segments the live playlist leaves out.
HOLD_BACK == 2

\* An S element of a SegmentTimeline: t (-1: absent), d and r.
S(t, d, r) == [t |-> t, d |-> d, r |-> r]

\* An expansion that gives every segment of an S element the same number.
repeat_segments_same_number(time, seq, d, count) ==
    [i \in 1..count |-> [number |-> seq, time |-> time + (i - 1) * d, d |-> d]]

\* The segments an S element stands for, from time `time` and number `seq`.
repeat_segments(time, seq, d, count) ==
    [i \in 1..count |->
        [number |-> seq + i - 1, time |-> time + (i - 1) * d, d |-> d]]

\* The expansion of a SegmentTimeline into segments: number, time and
\* duration (in units of the timescale).
RECURSIVE timeline_segments(_, _, _)
timeline_segments(timeline, current_time, current_seq) ==
    IF timeline = <<>> THEN <<>>
    ELSE LET s == Head(timeline)
             time == IF s.t # -1 THEN s.t ELSE current_time
             count == s.r + 1
         IN  repeat_segments(time, current_seq, s.d, count)
             \o timeline_segments(Tail(timeline), time + count * s.d,
                                  current_seq + count)

\* sum(s['duration'] for s in segments), in units of the timescale.
RECURSIVE total_duration(_)
total_duration(segments) ==
    IF segments = <<>> THEN 0
    ELSE Head(segments).d + total_duration(Tail(segments))

LastN(s, n) == SubSeq(s, Len(s) - n + 1, Len(s))

\* The DVR window step: when the segments last longer than the window,
\* they are taken from the newest back until their durations add up to
\* the window or more.
dvr_trim(segments, dvr_window, timescale) ==
    IF total_duration(segments) > dvr_window * timescale
    THEN LastN(segments,
               Min({n \in 1..Len(segments) :
                       total_duration(LastN(segments, n)) >= dvr_window * timescale}))
    ELSE segments

\* The hold-back step: segments[:-2] when there are more than two.
hold_back(segments) ==
    IF Len(segments) > HOLD_BACK
    THEN SubSeq(segments, 1, Len(segments) - HOLD_BACK)
    ELSE segments

\* The media sequence taken from the newest segment listed.
media_sequence_newest(segments) == segments[Len(segments)].number

\* The value of #EXT-X-MEDIA-SEQUENCE: segments[0]["number"].
media_sequence(segments) == segments[1].number

\* math.ceil(max(duration)) for durations in units of the timescale.
target_duration(segments, timescale) ==
    LET max_d == CHOOSE d \in {segments[i].d : i \in 1..Len(segments)} :
                    \A i \in 1..Len(segments) : segments[i].d <= d
    IN  (max_d + timescale - 1) \div timescale

\* The DVR window of a manifest, in seconds.
dvr_window(mpd) ==
    IF mpd.timeShiftBufferDepth # NoDuration
    THEN parse_iso8601(mpd.timeShiftBufferDepth)
    ELSE DEFAULT_DVR_WINDOW

\* A line of the playlist.  `value` is the number a tag carries, `scale`
\* the timescale an #EXTINF duration is in; a URI line has the endpoint,
\* the segment it names (number, time, by: the placeholder of the
\* template that names it) and the key and key_id of its query.
Line(tag, value) ==
    [tag |-> tag, value |-> value, scale |-> 1, endpoint |-> "none",
     by |-> "none", number |-> 0, time |-> 0, key |-> <<>>, key_id |-> <<>>,
     clearkey |-> <<>>]

\* The clearkey parameter as the converter reads it: kid:key when the
\* text has exactly one colon.
server_side_decryption(clearkey_param) ==
    clearkey_param # <<>> /\ Len(Split(clearkey_param, ":")) = 2

\* The URI of a MAP or segment line; both endpoints get `params`, which
\* holds the clearkey parameter the handler assembled.
Uri(tag, clearkey_param, by, seg) ==
    IF server_side_decryption(clearkey_param)
    THEN [Line(tag, 0) EXCEPT !.endpoint = "decrypt", !.by = by,
                              !.number = seg.number, !.time = seg.time,
                              !.key = Split(clearkey_param, ":")[2],
                              !.key_id = Split(clearkey_param, ":")[1],
                              !.clearkey = clearkey_param]
    ELSE [Line(tag, 0) EXCEPT !.endpoint = "segment", !.by = by,
                              !.number = seg.number, !.time = seg.time,
                              !.clearkey = clearkey_param]

NoSegment == [number |-> 0, time |-> 0, d |-> 0]

ErrorPlaylist ==
    [kind |-> "error", lines |-> <<Line("#EXTM3U", 0), Line("#EXT-X-ERROR", 0)>>,
     segments |-> <<>>, windowed |-> <<>>]

\* The EXTINF and URI lines of the segments.
RECURSIVE segment_lines(_, _, _)
segment_lines(segments, mpd, clearkey_param) ==
    IF segments = <<>> THEN <<>>
    ELSE <<[Line("#EXTINF", Head(segments).d) EXCEPT !.scale = mpd.timescale],
           Uri("uri", clearkey_param, mpd.media, Head(segments))>>
         \o segment_lines(Tail(segments), mpd, clearkey_param)

\* convert_media_playlist(manifest_content, rep_id, ..., clearkey_param).
\* `segments` and `windowed` keep the segments of the manifest and those
\* left by the DVR window step.
convert_media_playlist(mpd, rep_id, clearkey_param) ==
    LET is_live == Lower(mpd.type) = "dynamic"
        all == timeline_segments(mpd.timeline, 0, mpd.startNumber)
        windowed == IF is_live /\ all # <<>>
                    THEN dvr_trim(all, dvr_window(mpd), mpd.timescale) ELSE all
        segments == IF is_live /\ all # <<>> THEN hold_back(windowed) ELSE all
        map == IF mpd.init
               THEN <<Uri("#EXT-X-MAP", clearkey_param, "init", NoSegment)>>
               ELSE <<>>
        sequence == IF is_live /\ segments # <<>>
                    THEN <<Line("#EXT-X-MEDIA-SEQUENCE", media_sequence(segments))>>
                    ELSE <<>>
        target == IF segments # <<>>
                  THEN Line("#EXT-X-TARGETDURATION",
                            target_duration(segments, mpd.timescale))
                  ELSE Line("#EXT-X-TARGETDURATION", 6)
        vod == IF is_live THEN <<>> ELSE <<Line("#EXT-X-PLAYLIST-TYPE", 0)>>
        endlist == IF is_live THEN <<>> ELSE <<Line("#EXT-X-ENDLIST", 0)>>
    IN  IF rep_id \notin mpd.representations THEN ErrorPlaylist
        ELSE IF ~ mpd.has_timeline
        THEN \* a SegmentTemplate without child elements is false
             ErrorPlaylist
        ELSE IF /\ server_side_decryption(clearkey_param)
                /\ ~ mpd.init
                /\ segments # <<>>
        THEN \* encoded_init_url is not bound: the outer except clause
             ErrorPlaylist
        ELSE [kind |-> "media",
              lines |-> <<Line("#EXTM3U", 0), Line("#EXT-X-VERSION", 7), target>>
                        \o map \o sequence \o vod
                        \o segment_lines(segments, mpd, clearkey_param)
                        \o endlist,
              segments |-> all,
              windowed |-> windowed]

\* handle_proxy_request: the clearkey parameter, from the query's clearkey
\* or from its key_id and key (<<>>: the parameter is absent).
clearkey_of(query) ==
    IF query.clearkey # <<>> THEN query.clearkey
    ELSE IF query.key_id # <<>> /\ query.key # <<>>
    THEN LET key_ids == Split(query.key_id, ",")
             key_vals == Split(query.key, ",")
             min_len == IF Len(key_ids) < Len(key_vals) THEN Len(key_ids)
                        ELSE Len(key_vals)
         IN  Join([i \in 1..min_len |->
                      Strip(key_ids[i]) \o <<":">> \o Strip(key_vals[i])], ",")
    ELSE query.key

\* The largest r of an S element of the manifests.
MaxRepeat == 5

Timelines ==
    {<<S(-1, 2, r)>> : r \in 0..MaxRepeat}
    \cup {<<S(100, 3, 2), S(-1, 2, 2)>>,
          <<S(0, 3, 1), S(20, 3, 2)>>,
          <<S(-1, 60, 4)>>,
          \* r = -1: range(0), no segment
          <<S(-1, 3, -1), S(-1, 2, 3)>>}

\* timeShiftBufferDepth: absent, PT5S, PT6S, PT1M30S.
Depths ==
    {NoDuration, Duration(TRUE, -1, -1, 5), Duration(TRUE, -1, -1, 6),
     Duration(TRUE, -1, 1, 30)}

\* The manifests an origin serves: the attributes the converter reads.
\* has_timeline is false for a SegmentTemplate with a duration attribute
\* and no SegmentTimeline; availabilityStartTime is in seconds.
Manifests ==
    [type : {"dynamic", "static"},
     timeShiftBufferDepth : Depths,
     availabilityStartTime : {1000},
     representations : {{"v1", "a1"}},
     has_timeline : {TRUE},
     timescale : {1, 2},
     startNumber : {1, 5},
     init : BOOLEAN,
     media : {"Number", "Time"},
     timeline : Timelines]
    \cup
    [type : {"dynamic", "static"},
     timeShiftBufferDepth : {NoDuration},
     availabilityStartTime : {1000},
     representations : {{"v1", "a1"}},
     has_timeline : {FALSE},
     timescale : {1},
     startNumber : {1},
     init : {TRUE},
     media : {"Number"},
     timeline : {<<>>}]

\* The clearkey, key_id and key parameters of a request (<<>>: absent).
KeyInputs ==
    {[clearkey |-> <<>>, key_id |-> <<>>, key |-> <<>>],
     [clearkey |-> <<"k1", ":", "v1">>, key_id |-> <<>>, key |-> <<>>],
     [clearkey |-> <<"k1", ":", "v1", ",", "k2", ":", "v2">>,
      key_id |-> <<>>, key |-> <<>>],
     [clearkey |-> <<>>, key_id |-> <<"k1">>, key |-> <<"v1">>],
     [clearkey |-> <<>>, key_id |-> <<"k1", ",", " ", "k2">>,
      key |-> <<"v1", ",", "v2">>],
     [clearkey |-> <<>>, key_id |-> <<"k1", ",", "k2">>, key |-> <<"v1">>],
     [clearkey |-> <<>>, key_id |-> <<>>, key |-> <<"v1">>]}

\* The query of a request for an MPD ("": no rep_id).
MpdQueries ==
    {[rep_id |-> rep, clearkey |-> k.clearkey, key_id |-> k.key_id, key |-> k.key] :
        rep \in {"v1", "zz", ""}, k \in KeyInputs}

\* An origin that serves the manifest `mpd`.
MpdOrigin(mpd) ==
    [fetch |-> {"200"}, stream |-> {"ok"}, handshake |-> {}, mpd |-> mpd]

InitMpd ==
    /\ API_PASSWORD = None
    /\ MPD_MODE = "legacy"
    /\ TRANSPORT_ROUTES = <<>>
    /\ GLOBAL_PROXIES = <<>>
    /\ \E mpd \in Manifests : origins = MpdOrigin(mpd)
    /\ InitProxy
    /\ InitSeg
    /\ segment_cache = <<>>
    /\ now = 0

\* handle_proxy_request in legacy mode, from the arrival of the manifest
\* with status 200 to the response: the playlist of the representation
\* the query names, or the master playlist (its lines are not modelled).
mpd_response ==
    /\ \E query \in MpdQueries :
          /\ mpd_request' = [kind |-> "mpd", query |-> query,
                             clearkey_param |-> clearkey_of(query)]
          /\ playlist' =
                IF query.rep_id # ""
                THEN convert_media_playlist(origins.mpd, query.rep_id,
                                            clearkey_of(query))
                ELSE [NoPlaylist EXCEPT !.kind = "master"]
    /\ UNCHANGED <<configVars, regVars, segVars, poolVars, sent, resp, closing,
                   acquired, returned>>

NextMpd == mpd_response

SpecMpd == InitMpd /\ [][NextMpd]_vars

-----------------------------------------------------------------------------
(* config.py: get_proxy_for_url and get_ssl_setting_for_url on their own *)

\* The largest number of routes of a table.
MaxRoutes == 2

\* The routes parse_transport_routes can make: a pattern, a proxy or None,
\* and the disable_ssl flag.  A route written by hand may hold "".
RouteSet ==
    {[url |-> <<"o1">>, proxy |-> "P1", disable_ssl |-> TRUE],
     [url |-> <<"o1", "/", "k">>, proxy |-> None, disable_ssl |-> FALSE],
     [url |-> <<"O1">>, proxy |-> "P2", disable_ssl |-> TRUE],
     [url |-> <<"/">>, proxy |-> "", disable_ssl |-> FALSE]}

RouteTables == UNION {[1..n -> RouteSet] : n \in 0..MaxRoutes}

RoutePools == {<<>>, <<"P2">>, <<"P3", "P4">>}

RouteUrls ==
    {<<>>, <<"o1", "/", "k", ".bin">>, <<"o1">>, <<"O1", "/", "k">>,
     <<"o2", "/", "x">>, <<"o2">>}

InitRoutes ==
    /\ API_PASSWORD = None
    /\ MPD_MODE = "legacy"
    /\ TRANSPORT_ROUTES \in RouteTables
    /\ GLOBAL_PROXIES \in RoutePools
    /\ origins = PlainOrigin
    /\ InitProxy
    /\ InitSeg
    /\ segment_cache = <<>>
    /\ now = 0

\* A caller asks for the proxy of a URL.
proxy_for_url ==
    /\ \E url \in RouteUrls :
       \E proxy \in get_proxy_for_url(url, TRANSPORT_ROUTES, GLOBAL_PROXIES) :
          returned' = [fn |-> "get_proxy_for_url", url |-> url, proxy |-> proxy]
    /\ UNCHANGED <<configVars, regVars, segVars, poolVars, sent, resp, closing,
                   acquired, mpd_request, playlist>>

\* A caller asks for the TLS setting of a URL.
ssl_setting_for_url ==
    /\ \E url \in RouteUrls :
          returned' = [fn |-> "get_ssl_setting_for_url", url |-> url,
                       disable_ssl |-> get_ssl_setting_for_url(url, TRANSPORT_ROUTES)]
    /\ UNCHANGED <<configVars, regVars, segVars, poolVars, sent, resp, closing,
                   acquired, mpd_request, playlist>>

NextRoutes == proxy_for_url \/ ssl_setting_for_url

SpecRoutes == InitRoutes /\ [][NextRoutes]_vars

-----------------------------------------------------------------------------
(* HLSProxy.get_extractor on its own *)

SelectUrls ==
    {<<"o1", "/", "live", ".m3u8">>,
     <<"vavoo.to", "/", "ch">>,
     <<"mixdrop", "/", "vavoo.to">>,
     <<"o1", "/", "watch.php?id=", "7">>,
     <<"o1", "/", "watch.php?id=", "x">>,
     <<"daddylive", "/", "ch">>,
     <<"vixsrc.to/", "/movie/", "1">>,
     <<"VIXSRC.TO/", "/tv/", "1">>,
     <<"vixsrc.to/", "playlist", "1">>,
     <<"sportsonline", "/", "ch">>,
     <<"mixdrop", "/", "e">>,
     <<"voe.sx", "/", "e">>}

\* The host parameter of a request: absent, a site, a site in capitals, an
\* alias, the key of the generic extractor.
SelectHosts == {None, "vavoo", "Vavoo", "daddylive", "mixdrop", "hls_generic"}

InitSelect ==
    /\ API_PASSWORD = None
    /\ MPD_MODE = "legacy"
    /\ TRANSPORT_ROUTES = <<>>
    /\ GLOBAL_PROXIES = <<"P2">>
    /\ origins = PlainOrigin
    /\ InitProxy
    /\ InitSeg
    /\ segment_cache = <<>>
    /\ now = 0

\* A handler calls get_extractor(url, request_headers, host).
select ==
    /\ \E url \in SelectUrls, host \in SelectHosts :
       \E proxies \in extractor_proxies(url, host) :
          LET g == get_extractor(url, EmptyDict, host, proxies)
          IN  /\ extractors' = g.extractors
              /\ created' = g.created
              /\ returned' = [fn |-> "get_extractor", url |-> url, host |-> host,
                              key |-> g.key, id |-> g.extractors[g.key].id]
    /\ UNCHANGED <<configVars, calls, segVars, poolVars, sent, resp, closing,
                   acquired, mpd_request, playlist>>

NextSelect == select

SpecSelect == InitSelect /\ [][NextSelect]_vars

-----------------------------------------------------------------------------
(* GenericHLSExtractor.extract on its own: the descriptor's headers *)

\* Values a caller can send as Referer or Origin: none, the target's own
\* host, another site, and two hosts of an unrelated provider.
RefererValues ==
    {None, <<"o1", "/">>, <<"o9", "/">>, <<"pcdn", "/", "sky">>, <<"cssott", "/">>}

OriginValues == {None, <<"o1">>, <<"pcdn">>}

\* The headers an instance of the generic extractor is built with.
ExtractHeaders ==
    {[x \in {k \in {rn, "Origin", "Cookie"} :
                \/ k = rn /\ r # None
                \/ k = "Origin" /\ o # None
                \/ k = "Cookie" /\ c # None} |->
         IF x = rn THEN r ELSE IF x = "Origin" THEN o ELSE c] :
       rn \in {"Referer", "referer"}, r \in RefererValues, o \in OriginValues,
       c \in {None, <<"a">>}}

\* Plain targets and redirector targets.
ExtractUrls ==
    {U_hls, U_redir, <<"o1", "/RESOLVE/", "x">>,
     <<"torrentio", "/", "stream">>, <<"torrentio", "/resolve/", "x">>}

InitExtract ==
    /\ API_PASSWORD = None
    /\ MPD_MODE = "legacy"
    /\ TRANSPORT_ROUTES = <<>>
    /\ GLOBAL_PROXIES = <<>>
    /\ origins = PlainOrigin
    /\ InitProxy
    /\ InitSeg
    /\ segment_cache = <<>>
    /\ now = 0

\* GenericHLSExtractor(request_headers).extract(url): the request_headers of
\* the descriptor it returns.
extract ==
    /\ \E request_headers \in ExtractHeaders, url \in ExtractUrls :
          returned' = [fn |-> "extract", url |-> url,
                       request_headers |-> request_headers,
                       descriptor |-> extract_headers(request_headers, url)]
    /\ UNCHANGED <<configVars, regVars, segVars, poolVars, sent, resp, closing,
                   acquired, mpd_request, playlist>>

NextExtract == extract

SpecExtract == InitExtract /\ [][NextExtract]_vars

-----------------------------------------------------------------------------
(* utils/drm_decrypter.py *)

\* bytes: a sequence of integers 0..255.  The four-character codes of the
\* boxes, as their ASCII bytes.
fourcc(name) ==
    CASE name = "moov" -> <<109, 111, 111, 118>>
      [] name = "moof" -> <<109, 111, 111, 102>>
      [] name = "sidx" -> <<115, 105, 100, 120>>
      [] name = "mdat" -> <<109, 100, 97, 116>>
      [] name = "trak" -> <<116, 114, 97, 107>>
      [] name = "pssh" -> <<112, 115, 115, 104>>
      [] name = "uuid" -> <<117, 117, 105, 100>>
      [] name = "traf" -> <<116, 114, 97, 102>>
      [] name = "tfhd" -> <<116, 102, 104, 100>>
      [] name = "trun" -> <<116, 114, 117, 110>>
      [] name = "senc" -> <<115, 101, 110, 99>>
      [] name = "saiz" -> <<115, 97, 105, 122>>
      [] name = "saio" -> <<115, 97, 105, 111>>
      [] name = "mdia" -> <<109, 100, 105, 97>>
      [] name = "minf" -> <<109, 105, 110, 102>>
      [] name = "stbl" -> <<115, 116, 98, 108>>
      [] name = "stsd" -> <<115, 116, 115, 100>>
      [] name = "encv" -> <<101, 110, 99, 118>>
      [] name = "enca" -> <<101, 110, 99, 97>>
      [] name = "avc1" -> <<97, 118, 99, 49>>
      [] name = "mp4a" -> <<109, 112, 52, 97>>
      [] name = "mp4v" -> <<109, 112, 52, 118>>
      [] name = "hvc1" -> <<104, 118, 99, 49>>
      [] name = "hev1" -> <<104, 101, 118, 49>>
      [] name = "sinf" -> <<115, 105, 110, 102>>
      [] name = "schi" -> <<115, 99, 104, 105>>
      [] name = "tenc" -> <<116, 101, 110, 99>>
      [] name = "schm" -> <<115, 99, 104, 109>>
      [] name = "frma" -> <<102, 114, 109, 97>>
      [] name = "styp" -> <<115, 116, 121, 112>>
      [] name = "free" -> <<102, 114, 101, 101>>
      [] name = "mfhd" -> <<109, 102, 104, 100>>

\* struct.unpack_from(">I", data, off), for values below 2^31.
U32(data, off) ==
    data[off + 1] * 16777216 + data[off + 2] * 65536
        + data[off + 3] * 256 + data[off + 4]

\* struct.unpack_from(">H", data, off).
U16(data, off) == data[off + 1] * 256 + data[off + 2]

\* struct.pack(">I", n), 0 <= n < 2^31.
P32(n) == <<(n \div 16777216) % 256, (n \div 65536) % 256, (n \div 256) % 256, n % 256>>

\* struct.pack(">i", n): two's complement of a negative n.
P32s(n) ==
    IF n >= 0 THEN P32(n)
    ELSE LET m == P32(- n - 1) IN [i \in 1..4 |-> 255 - m[i]]

\* data[a:b] of Python: the bounds are clipped to the data.
Slice(data, a, b) ==
    LET lo == IF a > Len(data) THEN Len(data) ELSE a
        hi == IF b > Len(data) THEN Len(data) ELSE b
    IN  IF hi <= lo THEN <<>> ELSE SubSeq(data, lo + 1, hi)

\* MP4Atom(atom_type, size, data).
MP4Atom(atom_type, size, data) ==
    [atom_type |-> atom_type, size |-> size, data |-> data]

\* TLC may compute a definition or an argument anew at each use.
\* One({e : x \in {v}}) is e with x standing for the value of v, computed once.
One(xs) == CHOOSE x \in xs : TRUE

Max(xs) == CHOOSE x \in xs : \A y \in xs : y <= x

\* MP4Atom.pack: a 32-bit size, the type, the data.
pack(atom) == One({P32(a.size) \o a.atom_type \o a.data : a \in {atom}})

\* MP4Parser.read_atom at a position: the atom and the position after it;
\* ok is false where the code returns None.  A 64-bit size whose upper half
\* is not zero exceeds any data.
read_atom(data, position) ==
    IF position + 8 > Len(data) THEN [ok |-> FALSE]
    ELSE LET size32 == U32(data, position)
             atom_type == SubSeq(data, position + 5, position + 8)
             large == size32 = 1
         IN  IF large /\ position + 16 > Len(data) THEN [ok |-> FALSE]
             ELSE LET pos == IF large THEN position + 16 ELSE position + 8
                      fits == ~ large \/ U32(data, position + 8) = 0
                      size == IF large THEN U32(data, position + 12) ELSE size32
                  IN  IF ~ fits \/ size < 8 \/ pos + size - 8 > Len(data)
                      THEN [ok |-> FALSE]
                      ELSE [ok |-> TRUE,
                            atom |-> MP4Atom(atom_type, size,
                                             SubSeq(data, pos + 1, pos + size - 8)),
                            position |-> pos + size - 8]

\* The atoms read one after the other from a position until read_atom gives
\* None: MP4Parser.list_atoms, and iter(parser.read_atom, None).
RECURSIVE atoms_from(_, _)
atoms_from(data, position) ==
    One({IF ~ r.ok THEN <<>> ELSE <<r.atom>> \o atoms_from(data, r.position) :
            r \in {read_atom(data, position)}})

list_atoms(data) == atoms_from(data, 0)

\* b"".join(parts).
RECURSIVE join_from(_, _)
join_from(parts, i) ==
    IF i > Len(parts) THEN <<>> ELSE parts[i] \o join_from(parts, i + 1)

join_bytes(parts) == One({join_from(p, 1) : p \in {parts}})

\* MP4Atom(atom_type, len(new_data) + 8, new_data).
new_atom(atom_type, new_data) ==
    One({MP4Atom(atom_type, Len(d) + 8, d) : d \in {new_data}})

\* MP4Decrypter._extract_real_format: the data of the first frma of a sinf,
\* or nothing.
_extract_real_format(sinf) ==
    One({LET frmas == {i \in 1..Len(atoms) : atoms[i].atom_type = fourcc("frma")}
         IN  IF frmas = {} THEN <<>> ELSE atoms[Min(frmas)].data :
            atoms \in {list_atoms(sinf.data)}})

AUDIO_HEAD == 28
VIDEO_HEAD == 78
GENERIC_HEAD == 16

\* MP4Decrypter._process_sample_entry: the protection boxes are dropped and
\* the type becomes the format of the last sinf, encv and enca their clear
\* counterparts.
_process_sample_entry(entry) ==
    LET orig_type == entry.atom_type
        head_sz == IF orig_type \in {fourcc("mp4a"), fourcc("enca")} THEN AUDIO_HEAD
                   ELSE IF orig_type \in {fourcc("mp4v"), fourcc("encv"), fourcc("avc1"),
                                          fourcc("hvc1"), fourcc("hev1")}
                        THEN VIDEO_HEAD
                        ELSE GENERIC_HEAD
        protection == {fourcc("sinf"), fourcc("schi"), fourcc("tenc"), fourcc("schm")}
    IN  One({LET sinfs == {i \in 1..Len(atoms) : atoms[i].atom_type = fourcc("sinf")}
                 new_data == Slice(entry.data, 0, head_sz)
                             \o join_bytes([i \in 1..Len(atoms) |->
                                    IF atoms[i].atom_type \in protection THEN <<>>
                                    ELSE pack(atoms[i])])
             IN  One({new_atom(IF final = fourcc("encv") THEN fourcc("avc1")
                               ELSE IF final = fourcc("enca") THEN fourcc("mp4a")
                               ELSE final,
                               new_data) :
                         final \in {One({IF real_format # <<>> THEN real_format
                                         ELSE orig_type :
                                            real_format \in
                                              {IF sinfs = {} THEN <<>>
                                               ELSE _extract_real_format(
                                                        atoms[Max(sinfs)])}})}}) :
                atoms \in {list_atoms(Slice(entry.data, head_sz, Len(entry.data)))}})

\* MP4Decrypter._process_stsd: the first entry_count entries are processed,
\* what follows them is dropped.
_process_stsd(stsd) ==
    One({LET entry_count == U32(stsd.data, 4)
             n == IF entry_count < Len(atoms) THEN entry_count ELSE Len(atoms)
         IN  new_atom(fourcc("stsd"),
                      Slice(stsd.data, 0, 8)
                      \o join_bytes([i \in 1..n |->
                             pack(_process_sample_entry(atoms[i]))])) :
            atoms \in {list_atoms(Slice(stsd.data, 8, Len(stsd.data)))}})

_process_stbl(stbl) ==
    One({new_atom(fourcc("stbl"),
                  join_bytes([i \in 1..Len(atoms) |->
                      IF atoms[i].atom_type = fourcc("stsd")
                      THEN pack(_process_stsd(atoms[i])) ELSE pack(atoms[i])])) :
            atoms \in {list_atoms(stbl.data)}})

_process_minf(minf) ==
    One({new_atom(fourcc("minf"),
                  join_bytes([i \in 1..Len(atoms) |->
                      IF atoms[i].atom_type = fourcc("stbl")
                      THEN pack(_process_stbl(atoms[i])) ELSE pack(atoms[i])])) :
            atoms \in {list_atoms(minf.data)}})

_process_mdia(mdia) ==
    One({new_atom(fourcc("mdia"),
                  join_bytes([i \in 1..Len(atoms) |->
                      IF atoms[i].atom_type = fourcc("minf")
                      THEN pack(_process_minf(atoms[i])) ELSE pack(atoms[i])])) :
            atoms \in {list_atoms(mdia.data)}})

_process_trak(trak) ==
    One({new_atom(fourcc("trak"),
                  join_bytes([i \in 1..Len(atoms) |->
                      IF atoms[i].atom_type = fourcc("mdia")
                      THEN pack(_process_mdia(atoms[i])) ELSE pack(atoms[i])])) :
            atoms \in {list_atoms(trak.data)}})

\* MP4Decrypter._process_moov: pssh and uuid are dropped, trak is processed.
_process_moov(moov) ==
    One({new_atom(fourcc("moov"),
                  join_bytes([i \in 1..Len(atoms) |->
                      IF atoms[i].atom_type = fourcc("trak")
                      THEN pack(_process_trak(atoms[i]))
                      ELSE IF atoms[i].atom_type \in {fourcc("pssh"), fourcc("uuid")}
                           THEN <<>>
                           ELSE pack(atoms[i])])) :
            atoms \in {list_atoms(moov.data)}})

\* flags & mask # 0, for a mask that is a power of two.
Bit(flags, mask) == (flags \div mask) % 2 = 1

\* struct.unpack_from(">I", data, 0)[0] & 0xFFFFFF of a full box.
box_flags(data) == data[2] * 65536 + data[3] * 256 + data[4]

\* struct.unpack_from(">i", data, off).
S32(data, off) ==
    IF data[off + 1] < 128 THEN U32(data, off)
    ELSE - 1 - U32([i \in 1..4 |-> 255 - data[off + i]], 0)

\* MP4Decrypter._process_trun: the sample count and trun_sample_sizes.
_process_trun(trun) ==
    LET flags == box_flags(trun.data)
        sample_count == U32(trun.data, 4)
        first == 8 + (IF Bit(flags, 1) THEN 4 ELSE 0) + (IF Bit(flags, 4) THEN 4 ELSE 0)
        duration == IF Bit(flags, 256) THEN 4 ELSE 0
        stride == duration + (IF Bit(flags, 512) THEN 4 ELSE 0)
                  + (IF Bit(flags, 1024) THEN 4 ELSE 0)
                  + (IF Bit(flags, 2048) THEN 4 ELSE 0)
    IN  [sample_count |-> sample_count,
         trun_sample_sizes |->
             [i \in 1..sample_count |->
                 IF Bit(flags, 512)
                 THEN U32(trun.data, first + (i - 1) * stride + duration)
                 ELSE 0]]

\* MP4Decrypter._modify_trun: the data offset less the removed bytes.
_modify_trun(trun, removed_overhead) ==
    LET data == trun.data
        new_offset == S32(data, 8) - removed_overhead
        new_data == IF Bit(box_flags(data), 1)
                    THEN SubSeq(data, 1, 8) \o P32s(new_offset)
                             \o SubSeq(data, 13, Len(data))
                    ELSE data
    IN  MP4Atom(fourcc("trun"), Len(new_data) + 8, new_data)

\* MP4Decrypter._parse_senc, the loop over the samples from a position.
RECURSIVE senc_samples(_, _, _, _)
senc_samples(data, subsample_info, pos, remaining) ==
    IF remaining = 0 \/ pos + 8 > Len(data) THEN <<>>
    ELSE LET iv == SubSeq(data, pos + 1, pos + 8)
             p1 == pos + 8
         IN  IF ~ subsample_info
             THEN <<[is_encrypted |-> TRUE, iv |-> iv, sub_samples |-> <<>>]>>
                  \o senc_samples(data, subsample_info, p1, remaining - 1)
             ELSE IF p1 + 2 > Len(data) THEN <<>>
             ELSE LET sc == U16(data, p1)
                      p2 == p1 + 2
                      room == (Len(data) - p2) \div 6
                      n == IF sc < room THEN sc ELSE room
                      sub_samples == [j \in 1..n |->
                                         <<U16(data, p2 + 6 * (j - 1)),
                                           U32(data, p2 + 6 * (j - 1) + 2)>>]
                  IN  <<[is_encrypted |-> TRUE, iv |-> iv, sub_samples |-> sub_samples]>>
                      \o senc_samples(data, subsample_info, p2 + 6 * n, remaining - 1)

\* MP4Decrypter._parse_senc: the count is read from the box only when the
\* caller passes 0; otherwise reading starts at byte 4.
_parse_senc(senc, sample_count) ==
    LET subsample_info == Bit(box_flags(senc.data), 2)
    IN  IF sample_count = 0
        THEN senc_samples(senc.data, subsample_info, 8, U32(senc.data, 4))
        ELSE senc_samples(senc.data, subsample_info, 4, sample_count)

\* a ^ b on bytes.
RECURSIVE Xor(_, _)
Xor(a, b) ==
    IF a = 0 THEN b
    ELSE IF b = 0 THEN a
    ELSE 2 * Xor(a \div 2, b \div 2) + (IF a % 2 = b % 2 THEN 0 ELSE 1)

\* The n-th byte of the AES-CTR key stream of (key, iv).  AES is not
\* computed: the stream stands for it, and differs between keys, between
\* initial values and along the stream.
keystream(key, iv, n) ==
    (key[(n % Len(key)) + 1] * 31 + iv[(n % Len(iv)) + 1] * 7 + n + 1) % 256

\* cipher.decrypt(chunk), the cipher having produced `used` bytes so far.
ctr_decrypt(chunk, key, iv, used) ==
    [i \in 1..Len(chunk) |-> Xor(chunk[i], keystream(key, iv, used + i - 1))]

\* MP4Decrypter._process_sample, the loop over the sub-samples.
RECURSIVE sub_samples_from(_, _, _, _, _, _)
sub_samples_from(sample, sub_samples, off, used, key, iv) ==
    IF sub_samples = <<>>
    THEN IF off < Len(sample)
         THEN ctr_decrypt(Slice(sample, off, Len(sample)), key, iv, used)
         ELSE <<>>
    ELSE LET clear_n == Head(sub_samples)[1]
             enc_n == Head(sub_samples)[2]
             clear == Slice(sample, off, off + clear_n)
             enc == Slice(sample, off + clear_n, off + clear_n + enc_n)
         IN  clear \o ctr_decrypt(enc, key, iv, used)
             \o sub_samples_from(sample, Tail(sub_samples), off + clear_n + enc_n,
                                 used + Len(enc), key, iv)

\* MP4Decrypter._process_sample.
_process_sample(sample, info, key) ==
    IF ~ info.is_encrypted THEN sample
    ELSE IF info.sub_samples = <<>> THEN ctr_decrypt(sample, key, info.iv, 0)
    ELSE sub_samples_from(sample, info.sub_samples, 0, 0, key, info.iv)

\* MP4Decrypter._get_key_for_track.  With one key in the map it is returned;
\* otherwise `tid.pack(4, "big")` is evaluated on an int, which has no such
\* method: AttributeError, whatever the map holds.
_get_key_for_track(key_map, tid) ==
    IF Cardinality(DOMAIN key_map) = 1
    THEN [raised |-> "none", key |-> key_map[CHOOSE k \in DOMAIN key_map : TRUE]]
    ELSE [raised |-> "AttributeError", key |-> <<>>]

\* MP4Decrypter.__init__: the fields of a decrypter.  No key is <<>>; raised
\* names the exception that left decrypt_segment, "none" while there is none.
MP4Decrypter(key_map) ==
    [key_map |-> key_map, current_key |-> <<>>, trun_sample_sizes |-> <<>>,
     current_sample_info |-> <<>>, encryption_overhead |-> 0, raised |-> "none"]

enc_boxes == {fourcc("senc"), fourcc("saiz"), fourcc("saio"), fourcc("uuid")}

RECURSIVE sum_sizes(_)
sum_sizes(atoms) ==
    IF atoms = <<>> THEN 0 ELSE Head(atoms).size + sum_sizes(Tail(atoms))

\* sum(a.size for a in atoms if a.atom_type in enc_boxes).
removed_size_of(atoms) ==
    sum_sizes(SelectSeq(atoms, LAMBDA a : a.atom_type \in enc_boxes))

\* MP4Decrypter._process_traf: the decrypter after the call and the new traf.
_process_traf(self, traf) ==
    One({LET removed_size == removed_size_of(atoms)
             of_type(t) == {i \in 1..Len(atoms) : atoms[i].atom_type = fourcc(t)}
             truns == of_type("trun")
             sencs == of_type("senc")
             tfhds == of_type("tfhd")
             \* pass 1: the last trun and the last senc decide; a senc is
             \* parsed with the sample count of the trun before it, 0 when
             \* there is none
             count_at(i) == LET before == {j \in truns : j < i}
                            IN  IF before = {} THEN 0
                                ELSE _process_trun(atoms[Max(before)]).sample_count
             sizes == IF truns = {} THEN self.trun_sample_sizes
                      ELSE _process_trun(atoms[Max(truns)]).trun_sample_sizes
             info == IF sencs = {} THEN self.current_sample_info
                     ELSE _parse_senc(atoms[Max(sencs)], count_at(Max(sencs)))
             \* key setup: every exception is swallowed (`except: pass`)
             key == IF tfhds = {} THEN self.current_key
                    ELSE LET tfhd == atoms[Max(tfhds)]
                         IN  IF Len(tfhd.data) < 8 THEN self.current_key
                             ELSE LET r == _get_key_for_track(self.key_map,
                                                              U32(tfhd.data, 4))
                                  IN  IF r.raised # "none" THEN self.current_key
                                      ELSE r.key
             \* pass 2
             new_data == join_bytes([i \in 1..Len(atoms) |->
                             IF atoms[i].atom_type \in enc_boxes THEN <<>>
                             ELSE IF atoms[i].atom_type = fourcc("trun")
                                  THEN pack(_modify_trun(atoms[i], removed_size))
                                  ELSE pack(atoms[i])])
         IN  [self |-> [self EXCEPT !.encryption_overhead = removed_size,
                                    !.trun_sample_sizes = sizes,
                                    !.current_sample_info = info,
                                    !.current_key = key],
              atom |-> new_atom(fourcc("traf"), new_data)] :
            atoms \in {list_atoms(traf.data)}})

\* MP4Decrypter._process_moof, the loop over the children.
RECURSIVE moof_children(_, _)
moof_children(self, atoms) ==
    IF atoms = <<>> THEN [self |-> self, data |-> <<>>]
    ELSE One({One({[self |-> rest.self, data |-> pack(t.atom) \o rest.data] :
                      rest \in {moof_children(t.self, Tail(atoms))}}) :
                 t \in {IF Head(atoms).atom_type = fourcc("traf")
                        THEN _process_traf(self, Head(atoms))
                        ELSE [self |-> self, atom |-> Head(atoms)]}})

_process_moof(self, moof) ==
    One({One({[self |-> r.self, atom |-> new_atom(fourcc("moof"), r.data)] :
                 r \in {moof_children(self, atoms)}}) :
            atoms \in {list_atoms(moof.data)}})

SIDX_MIN == 36
SIDX_REF == 32

\* MP4Decrypter._process_sidx: the 31-bit size at byte 32 less
\* encryption_overhead; packing a negative value raises struct.error.
_process_sidx(self, sidx) ==
    LET data == sidx.data
        ref_type == data[SIDX_REF + 1] \div 128
        ref_size == U32([i \in 1..4 |-> IF i = 1 THEN data[SIDX_REF + 1] % 128
                                         ELSE data[SIDX_REF + i]], 0)
        new_size == ref_size - self.encryption_overhead
        packed == P32(new_size)
        new_data == SubSeq(data, 1, SIDX_REF)
                    \o <<ref_type * 128 + packed[1], packed[2], packed[3], packed[4]>>
                    \o SubSeq(data, SIDX_REF + 5, Len(data))
    IN  IF Len(data) > SIDX_MIN
        THEN IF new_size < 0
             THEN [self |-> [self EXCEPT !.raised = "struct.error"], atom |-> sidx]
             ELSE [self |-> self,
                   atom |-> MP4Atom(fourcc("sidx"), Len(new_data) + 8, new_data)]
        ELSE [self |-> self, atom |-> MP4Atom(fourcc("sidx"), Len(data) + 8, data)]

\* MP4Decrypter._decrypt_mdat, the loop over current_sample_info from sample
\* i at position pos, and the copy of what is left.
RECURSIVE mdat_samples(_, _, _, _)
mdat_samples(self, src_data, i, pos) ==
    IF i > Len(self.current_sample_info) THEN Slice(src_data, pos, Len(src_data))
    ELSE LET size == IF i <= Len(self.trun_sample_sizes)
                        /\ self.trun_sample_sizes[i] > 0
                     THEN self.trun_sample_sizes[i]
                     ELSE Len(src_data) - pos
         IN  IF pos + size > Len(src_data) THEN Slice(src_data, pos, Len(src_data))
             ELSE _process_sample(Slice(src_data, pos, pos + size),
                                  self.current_sample_info[i], self.current_key)
                  \o mdat_samples(self, src_data, i + 1, pos + size)

_decrypt_mdat(self, mdat) ==
    IF self.current_key = <<>> \/ self.current_sample_info = <<>> THEN mdat
    ELSE new_atom(fourcc("mdat"), mdat_samples(self, mdat.data, 1, 0))

atom_process_order == {fourcc("moov"), fourcc("moof"), fourcc("sidx"), fourcc("mdat")}

\* MP4Decrypter._process_atom.
_process_atom(self, atom) ==
    IF atom.atom_type = fourcc("moov")
    THEN [self |-> self, atom |-> _process_moov(atom)]
    ELSE IF atom.atom_type = fourcc("moof") THEN _process_moof(self, atom)
    ELSE IF atom.atom_type = fourcc("sidx") THEN _process_sidx(self, atom)
    ELSE IF atom.atom_type = fourcc("mdat")
         THEN [self |-> self, atom |-> _decrypt_mdat(self, atom)]
         ELSE [self |-> self, atom |-> atom]

\* MP4Decrypter.decrypt_segment, the first pass: the atoms in the order of
\* the input, each of the four types processed where it stands.  An
\* exception ends the call.
RECURSIVE process_atoms(_, _)
process_atoms(self, atoms) ==
    IF atoms = <<>> \/ self.raised # "none" THEN [self |-> self, processed |-> <<>>]
    ELSE One({One({[self |-> rest.self,
                    processed |-> <<pack(r.atom)>> \o rest.processed] :
                      rest \in {process_atoms(r.self, Tail(atoms))}}) :
                 r \in {IF Head(atoms).atom_type \in atom_process_order
                        THEN _process_atom(self, Head(atoms))
                        ELSE [self |-> self, atom |-> Head(atoms)]}})

\* MP4Decrypter(key_map).decrypt_segment(combined_segment): the bytes
\* returned, their parts atom by atom, and the decrypter after the call.
decrypt_segment(key_map, combined_segment) ==
    One({One({[raised |-> r.self.raised,
               processed |-> IF r.self.raised = "none" THEN r.processed ELSE <<>>,
               result |-> IF r.self.raised = "none" THEN join_bytes(r.processed)
                          ELSE <<>>,
               decrypter |-> r.self] :
                 r \in {process_atoms(MP4Decrypter(key_map), atoms)}}) :
            atoms \in {list_atoms(combined_segment)}})

-----------------------------------------------------------------------------
(* MP4Decrypter.decrypt_segment on its own: the inputs *)

\* A box of an input: its type, its payload, and whether its header carries
\* the 64-bit size (size field 1, then the size on eight bytes).
Box(type, payload) == [type |-> type, payload |-> payload, large |-> FALSE]

LargeBox(type, payload) == [type |-> type, payload |-> payload, large |-> TRUE]

box_bytes(b) ==
    IF b.large
    THEN <<0, 0, 0, 1>> \o fourcc(b.type) \o <<0, 0, 0, 0>>
             \o P32(Len(b.payload) + 16) \o b.payload
    ELSE P32(Len(b.payload) + 8) \o fourcc(b.type) \o b.payload

\* A container: a box whose payload is a run of boxes.
Container(type, children) ==
    Box(type, join_bytes([i \in 1..Len(children) |-> box_bytes(children[i])]))

Zeros(n) == [i \in 1..n |-> 0]

MdatLen == 8     \* bytes of media data of a fragment

\* The media data: bytes 101, 102, ...
MediaData == [i \in 1..MdatLen |-> 100 + i]

\* tfhd: version and flags, track ID.
Tfhd(tid) == Box("tfhd", <<0, 0, 0, 0>> \o P32(tid))

\* trun with data offset (0x01) and sample sizes (0x200): count, the offset
\* of the media data, the sizes.
Trun(data_offset, sizes) ==
    Box("trun", <<0, 0, 2, 1>> \o P32(Len(sizes)) \o P32(data_offset)
                \o join_bytes([i \in 1..Len(sizes) |-> P32(sizes[i])]))

\* senc: version and flags (0x02 with sub-samples), count, and per sample an
\* initial value of eight bytes and, with sub-samples, their count and the
\* (clear, encrypted) sizes.
Senc(sub_samples, n) ==
    Box("senc",
        <<0, 0, 0, IF sub_samples = <<>> THEN 0 ELSE 2>> \o P32(n)
        \o join_bytes([i \in 1..n |->
               [j \in 1..8 |-> 10 * i + j]
               \o (IF sub_samples = <<>> THEN <<>>
                   ELSE <<0, Len(sub_samples)>>
                        \o join_bytes([j \in 1..Len(sub_samples) |->
                               <<0, sub_samples[j][1]>> \o P32(sub_samples[j][2])]))]))

Saiz == Box("saiz", Zeros(9))

Saio == Box("saio", Zeros(12))

\* The protection boxes of a traf, R bytes in all.
Protection(sub_samples, n) == <<Saiz, Saio, Senc(sub_samples, n)>>

\* A traf: tfhd, trun and the protection boxes, the senc after the trun or
\* before it.
Traf(tid, sizes, sub_samples, senc_first) ==
    LET prot == Protection(sub_samples, Len(sizes))
        R == Len(join_bytes([i \in 1..3 |-> box_bytes(prot[i])]))
        \* the media data start after moof (mfhd 16, traf header 8, tfhd 16,
        \* trun 20 + 4 per sample, protection R) and the mdat header
        trun == Trun(8 + 16 + 8 + 16 + 20 + 4 * Len(sizes) + R + 8, sizes)
    IN  Container("traf", IF senc_first THEN <<Tfhd(tid)>> \o prot \o <<trun>>
                          ELSE <<Tfhd(tid), trun>> \o prot)

Mfhd == Box("mfhd", <<0, 0, 0, 0, 0, 0, 0, 1>>)

Moof(traf) == Container("moof", <<Mfhd, traf>>)

\* sidx with one reference: the referenced size at byte 32 of the data.
Sidx(referenced_size) ==
    Box("sidx", <<1, 0, 0, 0>> \o Zeros(28) \o P32(referenced_size) \o Zeros(8))

\* An audio sample entry: the 28 bytes of its head, a codec box, and for a
\* protected entry the sinf with the original format.
SampleEntry(protected) ==
    IF protected
    THEN Box("enca", Zeros(28) \o box_bytes(Box("free", <<1, 2, 3, 4>>))
                     \o box_bytes(Container("sinf",
                            <<Box("frma", fourcc("mp4a")), Box("schm", Zeros(8))>>)))
    ELSE Box("mp4a", Zeros(28) \o box_bytes(Box("free", <<1, 2, 3, 4>>)))

\* moov: a header box, a trak down to the sample entry, and pssh.
Moov(protected, large) ==
    LET stsd == Box("stsd", <<0, 0, 0, 0, 0, 0, 0, 1>>
                            \o box_bytes(SampleEntry(protected)))
        trak == Container("trak", <<Container("mdia", <<Container("minf",
                    <<Container("stbl", <<stsd>>)>>)>>)>>)
        moov == Container("moov",
                    <<Box("free", <<7, 7>>), trak>>
                    \o (IF protected THEN <<Box("pssh", Zeros(6))>> ELSE <<>>))
    IN  [moov EXCEPT !.large = large]

\* The sample sizes of a trun: the samples fill the media data, the second
\* sample exceeds them, the sizes are absent (0).
SampleSizes == {<<3, MdatLen - 3>>, <<3, MdatLen + 12>>, <<0, 0>>}

\* The sub-samples of a sample: none, within the sample, beyond the sample.
SubSamples == {<<>>, <<<<1, 2>>>>, <<<<2, MdatLen + 22>>>>}

TrackIds == {1, 2, 3}

K1 == [i \in 1..16 |-> 17]

K2 == [i \in 1..16 |-> 34]

\* The key maps: one key under a key ID, and two keys under the track IDs
\* 1 and 2 on four bytes.
KeyMaps ==
    {[k \in {<<171, 205>>} |-> K1],
     [k \in {P32(1), P32(2)} |-> IF k = P32(1) THEN K1 ELSE K2]}

\* A fragment: moof and mdat, with a sidx (referenced size 200) before the
\* moof, after it, or none; or a sidx after the moof whose referenced size
\* (10) is less than the bytes removed.
Fragment(traf, sidx, large_mdat) ==
    LET mdat == IF large_mdat THEN LargeBox("mdat", MediaData)
                ELSE Box("mdat", MediaData)
    IN  IF sidx = "before" THEN <<Sidx(200), Moof(traf), mdat>>
        ELSE IF sidx = "after" THEN <<Moof(traf), Sidx(200), mdat>>
        ELSE IF sidx = "small" THEN <<Moof(traf), Sidx(10), mdat>>
        ELSE <<Moof(traf), mdat>>

\* What can precede the fragment: nothing, a styp box, a free box with a
\* 64-bit size, an init segment (moov) with or without protection.
Prefixes ==
    {<<>>, <<Box("styp", <<1, 2, 3, 4>>)>>, <<LargeBox("free", <<5, 6, 7, 8>>)>>,
     <<Box("styp", <<1, 2, 3, 4>>), Moov(TRUE, FALSE)>>,
     <<Moov(FALSE, FALSE)>>, <<Moov(TRUE, TRUE)>>}

\* Bytes after the last box: none, or fewer than a header.
Trailings == {<<>>, <<9, 9, 9>>}

\* What can follow the fragment: nothing, bytes fewer than a header, a box.
Tails ==
    {[boxes |-> <<>>, trailing |-> <<>>],
     [boxes |-> <<>>, trailing |-> <<9, 9, 9>>],
     [boxes |-> <<Box("free", Zeros(8))>>, trailing |-> <<>>]}

Plain == Traf(1, <<3, MdatLen - 3>>, <<>>, FALSE)

\* trun with sample sizes (0x200) and no data offset.
TrunPlain(sizes) ==
    Box("trun", <<0, 0, 2, 0>> \o P32(Len(sizes))
                \o join_bytes([i \in 1..Len(sizes) |-> P32(sizes[i])]))

\* A traf of a given trun and given protection boxes.
TrafOf(tid, trun, prot, senc_first) ==
    Container("traf", IF senc_first THEN <<Tfhd(tid)>> \o prot \o <<trun>>
                      ELSE <<Tfhd(tid), trun>> \o prot)

MoofOf(trafs) == Container("moof", <<Mfhd>> \o trafs)

\* A fragment of two tracks: one moof with a traf of track 1 (one sample of
\* 3 bytes) and a traf of track 2 (the rest of the media data), each with
\* its protection boxes or without; the data offsets address the samples
\* from the start of the moof.
TwoTrafs(protected1, protected2, senc_first) ==
    LET prot(protected) == IF protected THEN Protection(<<>>, 1) ELSE <<>>
        trafs(off) == <<TrafOf(1, Trun(off, <<3>>), prot(protected1), senc_first),
                        TrafOf(2, Trun(off + 3, <<MdatLen - 3>>), prot(protected2),
                               senc_first)>>
        moof_size == Len(box_bytes(MoofOf(trafs(0))))
    IN  <<MoofOf(trafs(moof_size + 8)), Box("mdat", MediaData)>>

\* A fragment whose trun carries no data offset.
NoOffset(tid, sizes, senc_first) ==
    <<MoofOf(<<TrafOf(tid, TrunPlain(sizes), Protection(<<>>, Len(sizes)),
                      senc_first)>>),
      Box("mdat", MediaData)>>

\* A fragment in the clear: no protection boxes in its moof, with a trun or
\* without one.
Clear(tid, with_trun) ==
    LET traf(off) == Container("traf",
                         <<Tfhd(tid)>> \o (IF with_trun
                                           THEN <<Trun(off, <<3, MdatLen - 3>>)>>
                                           ELSE <<>>))
        moof_size == Len(box_bytes(MoofOf(<<traf(0)>>)))
    IN  <<MoofOf(<<traf(moof_size + 8)>>), Box("mdat", MediaData)>>


\* The inputs: the boxes of a segment, the bytes after them, and the track
\* IDs of its fragments.
Segments ==
    \* one fragment
    {[boxes |-> prefix \o Fragment(Traf(tid, sizes, sub_samples, senc_first),
                                   sidx, FALSE),
      trailing |-> <<>>, tids |-> <<tid>>] :
        prefix \in {<<>>, <<Box("styp", <<1, 2, 3, 4>>)>>},
        tid \in TrackIds, sizes \in SampleSizes, sub_samples \in SubSamples,
        senc_first \in BOOLEAN, sidx \in {"none", "before", "after", "small"}}
    \* an init segment or a 64-bit box before the fragment, a 64-bit mdat
    \cup {[boxes |-> prefix \o Fragment(Plain, "before", large_mdat) \o tail.boxes,
           trailing |-> tail.trailing, tids |-> <<1>>] :
            prefix \in Prefixes, large_mdat \in BOOLEAN, tail \in Tails}
    \* two fragments of different tracks
    \cup {[boxes |-> Fragment(Traf(t1, <<3, MdatLen - 3>>, <<>>, FALSE), "none", FALSE)
                     \o Fragment(Traf(t2, <<3, MdatLen - 3>>, <<>>, FALSE), "none", FALSE),
           trailing |-> <<>>, tids |-> <<t1, t2>>] :
            t1 \in TrackIds, t2 \in TrackIds}
    \* two tracks in one moof
    \cup {[boxes |-> TwoTrafs(protected1, protected2, senc_first),
           trailing |-> <<>>, tids |-> <<2>>] :
            protected1 \in BOOLEAN, protected2 \in BOOLEAN, senc_first \in BOOLEAN}
    \* a trun without data offset
    \cup {[boxes |-> NoOffset(tid, sizes, senc_first),
           trailing |-> <<>>, tids |-> <<tid>>] :
            tid \in TrackIds, sizes \in SampleSizes, senc_first \in BOOLEAN}
    \* a protected fragment, then a fragment in the clear
    \cup {[boxes |-> Fragment(Traf(t1, <<3, MdatLen - 3>>, sub_samples, senc_first),
                              "none", FALSE)
                     \o Clear(t2, with_trun),
           trailing |-> <<>>, tids |-> <<t1, t2>>] :
            t1 \in TrackIds, t2 \in TrackIds, sub_samples \in SubSamples,
            senc_first \in BOOLEAN, with_trun \in BOOLEAN}
    \* none of moov, moof, sidx, mdat
    \cup {[boxes |-> boxes, trailing |-> trailing, tids |-> <<>>] :
            boxes \in {<<>>, <<Box("styp", <<1, 2, 3, 4>>)>>,
                       <<Box("styp", <<1, 2, 3, 4>>), Box("free", <<>>)>>,
                       <<LargeBox("free", <<5, 6, 7, 8>>)>>,
                       <<LargeBox("free", <<5, 6, 7, 8>>), Box("styp", <<1, 2, 3, 4>>)>>},
            trailing \in Trailings}

segment_bytes(segment) ==
    join_bytes([i \in 1..Len(segment.boxes) |-> box_bytes(segment.boxes[i])])
        \o segment.trailing

\* An origin that serves the init segment and the media segment whose
\* concatenation is `segment`.
SegmentOrigin(segment) ==
    [fetch |-> {"200"}, stream |-> {"ok"}, handshake |-> {}, segment |-> segment]

InitDecrypter ==
    /\ API_PASSWORD = None
    /\ MPD_MODE = "legacy"
    /\ TRANSPORT_ROUTES = <<>>
    /\ GLOBAL_PROXIES = <<>>
    /\ \E segment \in Segments : origins = SegmentOrigin(segment)
    /\ InitProxy
    /\ InitSeg
    /\ segment_cache = <<>>
    /\ now = 0

\* MP4Decrypter(key_map).decrypt_segment(combined_segment) on the bytes
\* fetched from the origin.
decrypt ==
    /\ \E key_map \in KeyMaps :
       \E combined_segment \in {segment_bytes(origins.segment)} :
       \E r \in {decrypt_segment(key_map, combined_segment)} :
          returned' = [fn |-> "decrypt_segment", key_map |-> key_map,
                       segment |-> origins.segment,
                       combined_segment |-> combined_segment,
                       raised |-> r.raised, processed |-> r.processed,
                       result |-> r.result, decrypter |-> r.decrypter]
    /\ UNCHANGED <<configVars, regVars, segVars, poolVars, sent, resp, closing,
                   acquired, mpd_request, playlist>>

NextDecrypter == decrypt

SpecDecrypter == InitDecrypter /\ [][NextDecrypter]_vars

-----------------------------------------------------------------------------
(* The HTTP client pool: _get_proxy_session under cleanup() *)

\* The proxy configurations of the pool's runs: a routed proxy, a routed
\* direct connection, a malformed proxy URI, and global pools.
PoolRoutes ==
    {<<>>,
     <<[url |-> <<"o1">>, proxy |-> "P1", disable_ssl |-> FALSE]>>,
     <<[url |-> <<"o1">>, proxy |-> "bad://", disable_ssl |-> FALSE]>>,
     <<[url |-> <<"o2">>, proxy |-> None, disable_ssl |-> FALSE]>>}

PoolGlobals == {<<>>, <<"P2">>, <<"P1", "P2">>, <<"bad://", "P2">>}

\* The URLs the handlers acquire a session for.
PoolUrls == {U_hls, U_mpd}

InitPool ==
    /\ API_PASSWORD = None
    /\ MPD_MODE = "legacy"
    /\ TRANSPORT_ROUTES \in PoolRoutes
    /\ GLOBAL_PROXIES \in PoolGlobals
    /\ origins = PlainOrigin
    /\ InitProxy
    /\ InitSeg
    /\ segment_cache = <<>>
    /\ now = 0

\* A handler calls _get_proxy_session(url).
acquire ==
    /\ \E url \in PoolUrls : \E g \in get_proxy_session(url) :
          /\ session' = g.session
          /\ proxy_sessions' = g.proxy_sessions
          /\ acquired' = [kind |-> "acquire", url |-> url, proxy |-> g.proxy,
                          via |-> g.via, state |-> g.state,
                          should_close |-> g.should_close,
                          created |-> g.created, failed |-> g.failed,
                          before |-> proxy_sessions]
    /\ UNCHANGED <<configVars, regVars, segVars, sent, resp, closing,
                   mpd_request, playlist, returned>>

\* cleanup() starts: it closes the direct session if that is open, and
\* takes the list of the cached proxy sessions it will close.
cleanup_start ==
    /\ closing.pc = "idle"
    /\ session' = IF session = "open" THEN "closed" ELSE session
    /\ closing' = [pc |-> "proxies",
                   todo |-> {q \in DOMAIN proxy_sessions :
                               proxy_sessions[q] = "open"}]
    /\ acquired' = NoAcquire
    /\ UNCHANGED <<configVars, regVars, segVars, sent, resp, proxy_sessions,
                   mpd_request, playlist, returned>>

\* cleanup() closes one of the sessions of its list (await session.close()).
\* Only cleanup closes sessions, and a session is replaced in the map only
\* once it is closed, so the map still holds the listed session.
cleanup_close(q) ==
    /\ closing.pc = "proxies"
    /\ q \in closing.todo
    /\ proxy_sessions' = [proxy_sessions EXCEPT ![q] = "closed"]
    /\ closing' = [closing EXCEPT !.todo = @ \ {q}]
    /\ acquired' = NoAcquire
    /\ UNCHANGED <<configVars, regVars, segVars, sent, resp, session,
                   mpd_request, playlist, returned>>

\* cleanup() is through its list: self.proxy_sessions.clear().
cleanup_clear ==
    /\ closing.pc = "proxies"
    /\ closing.todo = {}
    /\ proxy_sessions' = EmptyDict
    /\ closing' = [closing EXCEPT !.pc = "done"]
    /\ acquired' = NoAcquire
    /\ UNCHANGED <<configVars, regVars, segVars, sent, resp, session,
                   mpd_request, playlist, returned>>

PoolProxies == {"P1", "P2", "bad://"}

NextPool ==
    \/ acquire
    \/ cleanup_start
    \/ \E q \in PoolProxies : cleanup_close(q)
    \/ cleanup_clear

SpecPool == InitPool /\ [][NextPool]_vars

-----------------------------------------------------------------------------
(* Properties of the request handlers *)

\* C1: no upstream request carries an X-Forwarded-For, X-Real-IP, Forwarded
\* or Via header, in any letter case, whatever the client sent as headers
\* or h_ parameters.
C1_NoIpHeaderUpstream ==
    \A u \in sent : \A k \in DOMAIN u.headers : Lower(k) \notin IP_HEADERS

\* C2: with an API password configured, a request to a core endpoint that
\* does not supply it is answered 401 and makes no upstream request; with
\* no password configured no request is answered 401.
C2_PasswordGuardsEveryEndpoint ==
    /\ (API_PASSWORD # None /\ resp.endpoint # "none" /\ ~ resp.pw_supplied)
          => (resp.status = 401 /\ sent = {})
    /\ API_PASSWORD = None => resp.status # 401

\* C3: every upstream request of the stream proxy leaves through the proxy
\* the egress router resolves for its URL: the first matching route's proxy,
\* direct when that route names none, a pool member only when no route
\* matches.
C3_EgressFollowsRouter ==
    \A u \in sent :
        u.kind \in {"stream", "mpd"}
           => u.via \in get_proxy_for_url(u.url, TRANSPORT_ROUTES, GLOBAL_PROXIES)

\* C4: the descriptor the generic extractor returns for a request is the
\* one computed from that request's own headers, whatever the headers of
\* the requests served before it.
C4_DescriptorFromOwnHeaders ==
    resp.generic => resp.descriptor = extract_headers(resp.own, resp.url)

\* C5: a handler that invokes an extractor calls extract once, and after an
\* extraction error exactly once more with force_refresh; never more than
\* twice; a second failure is answered as an error.
C5_RetryOnceWithForceRefresh ==
    /\ resp.extract_calls <= 2
    /\ (resp.status # 0 /\ resp.extract_errors >= 1)
          => (resp.extract_calls = 2 /\ resp.forced)
    /\ resp.extract_errors = 2 => resp.status \in {500, 503}

\* C10: at most one extractor instance is ever made per key, and every
\* request that resolved to a key holds the instance registered under it.
C10_OneInstancePerKey ==
    /\ \A k \in ExtractorKeys : created[k] <= 1
    /\ \A k \in DOMAIN extractors : created[k] = 1 /\ extractors[k].id = 1
    /\ \A t \in TaskIds :
          calls[t].pc # "idle"
             => /\ calls[t].key \in DOMAIN extractors
                /\ extractors[calls[t].key].id = calls[t].inst

\* C10, its case: a request is suspended holding the generic instance while
\* a later request for the same key has been served by get_extractor.
C10_Witness ==
    \E t \in TaskIds :
        /\ calls[t].pc = "handshake1"
        /\ calls[t].key = "hls_generic"
        /\ resp.generic /\ resp.status # 0
        /\ resp.url # calls[t].request.url
        /\ created["hls_generic"] = 1

-----------------------------------------------------------------------------
(* Properties of the segment pipeline *)

\* C6: a prefetch task whose init is at hand and whose segment download
\* answers 200 (there is no decryption left to fail) ends with an entry for
\* its cache key in the segment cache.
C6_PrefetchEndsCached ==
    (ev.kind = "prefetch_end" /\ ev.init_ok /\ ev.seg_ok)
       => ev.key \in CacheKeys(segment_cache)

\* The prefetch tasks in flight for a cache key.
InFlight(k) ==
    BagCardinality([t \in {u \in BagToSet(prefetching) : u.key = k} |->
                       CopiesIn(t, prefetching)])

\* C7: at most one prefetch task is in flight per cache key, whatever the
\* interleaving of the decrypt requests: the pending set holds exactly the
\* keys of the tasks in flight, and a task is started only for a key that
\* is not in the segment cache.
C7_OnePrefetchPerKey ==
    /\ \A t \in BagToSet(prefetching) : InFlight(t.key) = 1
    /\ prefetch_tasks = {t.key : t \in BagToSet(prefetching)}
    /\ ev.kind = "stored" => ev.spawned \cap CacheKeys(segment_cache) = {}

\* C7, its case: a decrypt request stores its segment while the tasks for
\* all its next segments are pending, and starts none.
C7_Witness ==
    /\ ev.kind = "stored"
    /\ ev.next # {}
    /\ ev.next \subseteq prefetch_tasks
    /\ ev.spawned = {}

\* C8: the segment cache never holds more than 50 entries; a store that
\* makes it 51 evicts exactly 20 entries, none of them newer than an entry
\* that stays, and the stored entry stays; no other store evicts.
C8_CacheBounded ==
    /\ Len(segment_cache) <= 50
    /\ ev.kind = "stored" =>
          /\ ev.key \in CacheKeys(segment_cache)
          /\ ev.evicted # {} =>
                /\ Cardinality(ev.evicted) = 20
                /\ Len(segment_cache) = 51 - 20
                /\ \A e \in ev.evicted :
                      /\ e.key \notin CacheKeys(segment_cache)
                      /\ \A i \in 1..Len(segment_cache) :
                            e.time <= segment_cache[i].time

\* C8, its case: a store into a full cache has left 31 entries, the stored
\* one among them.
C8_Witness ==
    /\ ev.kind = "stored"
    /\ Len(segment_cache) = 31
    /\ Cardinality(ev.evicted) = 20
    /\ ev.key \in CacheKeys(segment_cache)

\* C9: a decrypt request that passed the password and parameter checks is
\* answered from the cache exactly when the cache holds an entry for its key
\* younger than 30 s; a hit makes no upstream request and starts no
\* decrypt; otherwise an entry found is removed and the segment fetched.
C9_HitIffFresh ==
    [][ev'.kind \in {"hit", "miss"} =>
        LET k == ev'.key
            fresh == \E i \in 1..Len(segment_cache) :
                        /\ segment_cache[i].key = k
                        /\ now - segment_cache[i].time < 30
        IN  /\ (ev'.kind = "hit") <=> fresh
            /\ ev'.kind = "hit" =>
                  /\ sent' = {}
                  /\ ~ ev'.pipeline
                  /\ resp'.status = 200
                  /\ UNCHANGED <<segment_cache, decrypting, prefetching>>
            /\ ev'.kind = "miss" =>
                  /\ k \notin CacheKeys(segment_cache')
                  /\ \E u \in sent' :
                        u.kind = "segment" /\ ts_cache_key(u.url, KID) = k]_vars

\* C9, its case: a decrypt request found an entry of age 30 s or more,
\* removed it and fetched the segment again.
C9_Witness ==
    /\ ev.kind = "miss"
    /\ ev.age >= 30
    /\ ev.key \notin CacheKeys(segment_cache)
    /\ \E u \in sent : u.kind = "segment"

-----------------------------------------------------------------------------
(* Properties of the HTTP client pool *)

\* C11: the session _get_proxy_session returns is not closed when it is
\* returned and the caller is never told to close it; a cached session
\* found closed is taken out of the map and a new one put in its place; a
\* session is made for a proxy only when the map holds no live one for it,
\* so the map holds one session per proxy; and when making the proxy
\* session fails, the direct session is returned, open, and the map is
\* left without an entry for that proxy.
C11_PoolAcquire ==
    acquired.kind = "acquire" =>
        LET q == acquired.proxy
            before == acquired.before
        IN  /\ acquired.state = "open"
            /\ ~ acquired.should_close
            /\ (q \in DOMAIN before /\ before[q] = "closed" /\ ~ acquired.failed)
                  => /\ acquired.created
                     /\ acquired.via = q
                     /\ proxy_sessions[q] = "open"
            /\ acquired.created
                  => /\ ~ (q \in DOMAIN before /\ before[q] = "open")
                     /\ DOMAIN proxy_sessions = DOMAIN before \cup {q}
                     /\ \A o \in DOMAIN before \ {q} :
                           proxy_sessions[o] = before[o]
            /\ ~ acquired.created /\ acquired.via # None
                  => /\ proxy_sessions = before
                     /\ before[acquired.via] = "open"
            /\ acquired.failed
                  => /\ acquired.via = None
                     /\ session = "open"
                     /\ q \notin DOMAIN proxy_sessions

\* A closed session was found in the map and replaced by a new one.
C11_Witness ==
    /\ acquired.kind = "acquire"
    /\ acquired.proxy \in DOMAIN acquired.before
    /\ acquired.before[acquired.proxy] = "closed"
    /\ acquired.created
    /\ proxy_sessions[acquired.proxy] = "open"

-----------------------------------------------------------------------------
(* Properties of the generic extractor's handshake *)

\* C12: for a redirector URL the generic extractor makes at most two
\* handshake GETs, none of which follows redirects: the first through the
\* instance's session, the second directly and only when the first gave no
\* Location header and the instance has proxies; once an attempt answered
\* with a Location header no further handshake GET is made and
\* destination_url is that Location resolved against the request URL.
C12_HandshakeAtMostTwo ==
    resp.generic /\ is_redirector(resp.url) =>
        /\ resp.handshakes <= 2
        /\ \A u \in sent : u.kind = "handshake" =>
              /\ ~ u.allow_redirects
              /\ resp.handshakes = 1 => u.via = extractors["hls_generic"].session
              /\ resp.handshakes = 2 =>
                    /\ u.via = None
                    /\ ~ resp.header
                    /\ Len(extractors["hls_generic"].proxies) > 0
        /\ resp.header /\ resp.status # 0 =>
              /\ \A u \in sent : u.kind # "handshake"
              /\ resp.destination = urljoin(resp.url, resp.location)

\* C13: when no handshake attempt gave a Location (an exception or another
\* status in either attempt, or no session to make the attempt with),
\* extract() raises nothing and returns the pass-through descriptor: the
\* handler goes on with destination_url equal to the request URL.
C13_PassThroughOnNoLocation ==
    (/\ resp.generic
     /\ is_redirector(resp.url)
     /\ resp.status # 0
     /\ resp.location = <<>>)
    => /\ resp.destination = resp.url
       /\ resp.extract_calls = 1
       /\ resp.extract_errors = 0
       /\ resp.endpoint = "extractor" => resp.status \in {200, 302}
       /\ resp.endpoint = "proxy" => resp.status = 200 \/ resp.outcome # "none"

\* Both attempts were made, neither gave a Location, and the request was
\* served with the pass-through descriptor.
C13_Witness ==
    /\ resp.generic
    /\ is_redirector(resp.url)
    /\ resp.status # 0
    /\ resp.handshakes = 2
    /\ resp.location = <<>>
    /\ resp.destination = resp.url

-----------------------------------------------------------------------------
(* Properties of the stream proxy *)

\* C19: _proxy_stream answers an upstream-side failure (timeout, failure
\* to connect to the origin, origin disconnect) with 502, and answers 499
\* only when the client side disconnected.
C19_UpstreamFailureIs502 ==
    resp.endpoint = "proxy" /\ resp.outcome \in StreamOutcomes =>
        /\ failure_side(resp.outcome) = "upstream" => resp.status = 502
        /\ resp.status = 499 => failure_side(resp.outcome) = "client"

\* C20: the upstream request _proxy_stream sends to a redirector URL has
\* no Range, If-None-Match or If-Modified-Since header, wherever the
\* header came from.
C20_NoRangeToRedirector ==
    \A u \in sent :
        u.kind = "stream" /\ is_redirector(u.url) =>
            \A k \in DOMAIN u.headers :
                Lower(k) \notin {"range", "if-none-match", "if-modified-since"}


\* C14: the playlist of a live MPD lists none of the three newest segments
\* of the manifest, however many segments the manifest has.
C14_HoldBackThree ==
    (/\ mpd_request.kind = "mpd"
     /\ playlist.kind = "media"
     /\ Lower(origins.mpd.type) = "dynamic")
    => \A i \in 1..Len(playlist.lines) :
          playlist.lines[i].tag = "uri"
          => \A j \in 1..Len(playlist.segments) :
                j > Len(playlist.segments) - 3
                => playlist.lines[i].number # playlist.segments[j].number


\* C15: for a live MPD whose segments last longer than the DVR window W,
\* with W longer than the longest segment, the segments the window step
\* retains are a suffix of the manifest's segments whose total duration is
\* more than W minus the longest segment and at most W.
C15_WindowNeverExceeded ==
    LET mpd == origins.mpd
        W == dvr_window(mpd) * mpd.timescale
        all == playlist.segments
        kept == playlist.windowed
    IN  (/\ mpd_request.kind = "mpd"
         /\ playlist.kind = "media"
         /\ Lower(mpd.type) = "dynamic"
         /\ total_duration(all) > W
         /\ \A i \in 1..Len(all) : all[i].d < W)
        => /\ Len(kept) <= Len(all)
           /\ kept = LastN(all, Len(kept))
           /\ total_duration(kept) <= W
           /\ \A i \in 1..Len(all) : total_duration(kept) > W - all[i].d


\* C16: the playlist of a live MPD that lists at least one segment has
\* exactly one #EXT-X-MEDIA-SEQUENCE line, whose value is the number of the
\* first segment listed, and the i-th segment listed (from 0) has the
\* number MEDIA-SEQUENCE + i.
C16_MediaSequence ==
    LET lines == playlist.lines
        uris == {i \in 1..Len(lines) : lines[i].tag = "uri"}
        seqs == {i \in 1..Len(lines) : lines[i].tag = "#EXT-X-MEDIA-SEQUENCE"}
    IN  (/\ mpd_request.kind = "mpd"
         /\ playlist.kind = "media"
         /\ Lower(origins.mpd.type) = "dynamic"
         /\ uris # {})
        => /\ Cardinality(seqs) = 1
           /\ \A s \in seqs : \A i \in uris :
                 lines[i].number
                    = lines[s].value + Cardinality({j \in uris : j < i})

\* A live manifest of six segments numbered from 5, trimmed by a window of
\* five seconds and held back: the playlist lists one segment, number 8.
C16_Witness ==
    /\ mpd_request.kind = "mpd"
    /\ playlist.kind = "media"
    /\ Lower(origins.mpd.type) = "dynamic"
    /\ Len(playlist.segments) = 6
    /\ Len(playlist.windowed) = 3
    /\ origins.mpd.startNumber = 5
    /\ \E i \in 1..Len(playlist.lines) :
          /\ playlist.lines[i].tag = "#EXT-X-MEDIA-SEQUENCE"
          /\ playlist.lines[i].value = 8
    /\ Cardinality({i \in 1..Len(playlist.lines) : playlist.lines[i].tag = "uri"}) = 1


\* C17: when the request supplies ClearKey keys, as one KID:KEY pair or as
\* several pairs separated by commas (in clearkey, or in key_id and key),
\* the EXT-X-MAP line and every segment URI of the media playlist point to
\* the decrypt endpoint and carry key and key_id; they point to the plain
\* segment endpoint only when no ClearKey is supplied.
C17_ClearKeyToDecryptEndpoint ==
    LET query == mpd_request.query
        supplied == \/ query.clearkey # <<>>
                    \/ (query.key_id # <<>> /\ query.key # <<>>)
    IN  (mpd_request.kind = "mpd" /\ playlist.kind = "media")
        => \A i \in 1..Len(playlist.lines) :
              playlist.lines[i].tag \in {"#EXT-X-MAP", "uri"}
              => IF supplied
                 THEN /\ playlist.lines[i].endpoint = "decrypt"
                      /\ playlist.lines[i].key # <<>>
                      /\ playlist.lines[i].key_id # <<>>
                 ELSE playlist.lines[i].endpoint = "segment"

\* C18: in the playlist of a live MPD that has availabilityStartTime and a
\* SegmentTimeline, every #EXTINF line follows an #EXT-X-PROGRAM-DATE-TIME
\* line whose time is availabilityStartTime + segment_time / timescale.
C18_ProgramDateTime ==
    LET mpd == origins.mpd
        lines == playlist.lines
    IN  (/\ mpd_request.kind = "mpd"
         /\ playlist.kind = "media"
         /\ Lower(mpd.type) = "dynamic"
         /\ mpd.availabilityStartTime >= 0
         /\ mpd.has_timeline)
        => \A i \in 1..Len(lines) :
              lines[i].tag = "#EXTINF"
              => /\ i > 1
                 /\ lines[i - 1].tag = "#EXT-X-PROGRAM-DATE-TIME"
                 /\ lines[i - 1].scale = mpd.timescale
                 /\ lines[i - 1].value
                       = mpd.availabilityStartTime * mpd.timescale
                         + lines[i + 1].time


\* C21: a key request with key_url and no static_key sends a key GET; when
\* a Heartbeat-Url header is among the headers built from the h_ parameters,
\* a GET to the URL it holds is sent before the key GET, whether it succeeds
\* or fails; without one no heartbeat GET is sent; and the key GET carries
\* no Heartbeat-Url header.
C21_HeartbeatBeforeKey ==
    (resp.endpoint = "key" /\ resp.url # <<>>)
    => LET hbs == {u \in sent : u.kind = "heartbeat"}
           keys == {u \in sent : u.kind = "key"}
           given == {k \in DOMAIN resp.own : Lower(k) = "heartbeat-url"}
       IN  /\ keys # {}
           /\ IF given # {}
              THEN \A k \in given : \E hb \in hbs :
                      /\ hb.url = resp.own[k]
                      /\ \A key \in keys : hb.n < key.n
              ELSE hbs = {}
           /\ \A key \in keys : \A k \in DOMAIN key.headers :
                 Lower(k) # "heartbeat-url"


\* C22: when the init download (made when init_url is given and not
\* cached) or the segment download of a decrypt request fails, times out
\* or is answered with a status other than 200, the response is 502, the
\* segment cache and the pending set of prefetches stay as they are, and
\* no decrypt, remux or prefetch is started.
C22_FetchFailureIs502 ==
    [][(/\ ev'.kind = "fetched"
        /\ \/ ev'.init_outcome \notin {"none", "200"}
           \/ ev'.seg_outcome # "200")
       => /\ resp'.endpoint = "decrypt"
          /\ resp'.status = 502
          /\ segment_cache' = segment_cache
          /\ prefetch_tasks' = prefetch_tasks
          /\ prefetching' = prefetching
          /\ ~ ev'.pipeline
          /\ \A d \in DecryptIds :
                decrypting'[d].pc = "decrypting" => decrypting[d].pc = "decrypting"]_vars

\* A segment download times out while the cache holds a segment and
\* prefetches of another request are pending.
C22_Witness ==
    /\ ev.kind = "fetched"
    /\ ev.seg_outcome = "TimeoutError"
    /\ resp.status = 502
    /\ segment_cache # <<>>
    /\ prefetch_tasks # {}


\* C23: get_proxy_for_url and get_ssl_setting_for_url take the first route
\* of the table whose pattern occurs in the URL, letter case included.
\* get_proxy_for_url returns the proxy of that route, or None when the
\* route has none; with no such route it returns a member of the global
\* pool, or None when the pool is empty.  get_ssl_setting_for_url returns
\* the disable flag of that route, and FALSE with no such route.
C23_FirstMatchingRoute ==
    LET url == returned.url
        routes == TRANSPORT_ROUTES
        first(i) == /\ Contains(routes[i].url, url)
                    /\ \A j \in 1..(i - 1) : ~ Contains(routes[j].url, url)
        none == \A i \in 1..Len(routes) : ~ first(i)
    IN  /\ returned.fn = "get_proxy_for_url"
           => /\ \A i \in 1..Len(routes) :
                    first(i) => returned.proxy =
                                   IF routes[i].proxy \in {None, ""} THEN None
                                   ELSE routes[i].proxy
              /\ none => IF GLOBAL_PROXIES = <<>> THEN returned.proxy = None
                         ELSE returned.proxy \in Range(GLOBAL_PROXIES)
              /\ returned.proxy \in
                    {None} \cup {routes[i].proxy : i \in 1..Len(routes)}
                           \cup Range(GLOBAL_PROXIES)
        /\ returned.fn = "get_ssl_setting_for_url"
           => /\ \A i \in 1..Len(routes) :
                    first(i) => returned.disable_ssl = routes[i].disable_ssl
              /\ none => returned.disable_ssl = FALSE

\* The second route of a table decides: the pattern of the first, O1,
\* differs from the URL in letter case only.
C23_Witness ==
    /\ returned.fn = "get_proxy_for_url"
    /\ Len(TRANSPORT_ROUTES) = 2
    /\ TRANSPORT_ROUTES[1].url = <<"O1">>
    /\ TRANSPORT_ROUTES[2].url = <<"o1">>
    /\ returned.url = <<"o1", "/", "k", ".bin">>
    /\ returned.proxy = "P1"
    /\ GLOBAL_PROXIES = <<"P3", "P4">>

\* C24: for the empty URL get_proxy_for_url returns None and
\* get_ssl_setting_for_url returns FALSE, whatever the route table and the
\* global pool.
C24_EmptyUrlDirect ==
    /\ (returned.fn = "get_proxy_for_url" /\ returned.url = <<>>)
          => returned.proxy = None
    /\ (returned.fn = "get_ssl_setting_for_url" /\ returned.url = <<>>)
          => returned.disable_ssl = FALSE


\* C25: the extractor get_extractor selects depends on the host hint and
\* the URL alone: with a host hint, the extractor keyed by the hint,
\* whatever the URL; without one, the key of the first entry of the domain
\* table whose token occurs in the URL; otherwise the generic extractor.
C25_SelectByHintThenDomain ==
    LET url == returned.url
        table == <<[token |-> "vavoo.to", key |-> "vavoo"],
                   [token |-> "daddylive", key |-> "dlhd"],
                   [token |-> "vixsrc.to/", key |-> "vixsrc"],
                   [token |-> "sportsonline", key |-> "sportsonline"],
                   [token |-> "mixdrop", key |-> "mixdrop"],
                   [token |-> "voe.sx", key |-> "voe"]>>
        hit(i) == Contains(<<table[i].token>>, LowerText(url))
        hint == IF returned.host = "daddylive" THEN "dlhd"
                ELSE LowerTok(returned.host)
    IN  returned.fn = "get_extractor"
        => /\ returned.host # None => returned.key = hint
           /\ returned.host = None
              => /\ \A i \in 1..Len(table) :
                       (hit(i) /\ \A j \in 1..(i - 1) : ~ hit(j))
                       => returned.key = table[i].key
                 /\ (\A i \in 1..Len(table) : ~ hit(i))
                       => returned.key = "hls_generic"

\* C25 as amended: a host hint that names a site extractor (in any letter
\* case, or by an alias) selects it whatever the URL; with no hint, or a
\* hint that names none, the first rule the URL satisfies decides, where
\* the dlhd rule also takes watch.php?id=<digits> and the vixsrc rule takes
\* vixsrc.to/ in any letter case together with /movie/, /tv/ or /iframe/;
\* otherwise the generic extractor is selected.
C25_SelectByHintThenRule ==
    LET url == returned.url
        has(w) == Contains(<<w>>, url)
        named == returned.host \in {"vavoo", "Vavoo", "daddylive", "mixdrop"}
        dlhd == \/ has("daddylive")
                \/ \E i \in 1..(Len(url) - 1) :
                      url[i] = "watch.php?id=" /\ url[i + 1] \in Range(Digits)
        vixsrc == /\ (has("vixsrc.to/") \/ has("VIXSRC.TO/"))
                  /\ (has("/movie/") \/ has("/tv/"))
    IN  returned.fn = "get_extractor"
        => /\ named
              => returned.key = CASE returned.host \in {"vavoo", "Vavoo"} -> "vavoo"
                                  [] returned.host = "daddylive" -> "dlhd"
                                  [] returned.host = "mixdrop" -> "mixdrop"
           /\ ~ named
              => returned.key =
                    CASE has("vavoo.to") -> "vavoo"
                      [] ~ has("vavoo.to") /\ dlhd -> "dlhd"
                      [] ~ has("vavoo.to") /\ ~ dlhd /\ vixsrc -> "vixsrc"
                      [] ~ has("vavoo.to") /\ ~ dlhd /\ ~ vixsrc
                         /\ has("sportsonline") -> "sportsonline"
                      [] ~ has("vavoo.to") /\ ~ dlhd /\ ~ vixsrc
                         /\ ~ has("sportsonline") /\ has("mixdrop") -> "mixdrop"
                      [] ~ has("vavoo.to") /\ ~ dlhd /\ ~ vixsrc
                         /\ ~ has("sportsonline") /\ ~ has("mixdrop")
                         /\ has("voe.sx") -> "voe"
                      [] OTHER -> "hls_generic"

\* With no hint, a URL that holds the tokens of two rules gets the
\* extractor of the earlier rule, from a registry that holds others.
C25_Witness ==
    /\ returned.fn = "get_extractor"
    /\ returned.host = None
    /\ returned.url = <<"mixdrop", "/", "vavoo.to">>
    /\ returned.key = "vavoo"
    /\ "mixdrop" \in DOMAIN extractors
    /\ "hls_generic" \in DOMAIN extractors

\* C26: when the target is a redirector (its URL contains /resolve/ or the
\* redirector token), a Referer or Origin of the caller whose value belongs
\* to an unrelated provider is not among the headers of the descriptor of
\* the generic extractor, and the descriptor carries the fixed neutral
\* referer instead.
unrelated_provider(v) ==
    \/ Contains(<<"pcdn">>, LowerText(v))
    \/ Contains(<<"cssott">>, LowerText(v))

C26_UnrelatedRefererReplaced ==
    (/\ returned.fn = "extract"
     /\ is_redirector(returned.url)
     /\ \E k \in DOMAIN returned.request_headers :
           /\ Lower(k) \in {"referer", "origin"}
           /\ unrelated_provider(returned.request_headers[k]))
    => /\ \A k \in DOMAIN returned.descriptor :
             Lower(k) \in {"referer", "origin"}
                 => ~ unrelated_provider(returned.descriptor[k])
       /\ \E k \in DOMAIN returned.descriptor :
             Lower(k) = "referer" /\ returned.descriptor[k] = STREMIO_REFERER

\* The boxes of a byte sequence as the format defines them: a 32-bit size
\* and a type, the size on the next eight bytes when the size field is 1.
\* Each with its type, its bytes and the length of its payload.
RECURSIVE boxes_at(_, _)
boxes_at(data, pos) ==
    IF pos + 8 > Len(data) THEN <<>>
    ELSE LET large == U32(data, pos) = 1
             header == IF large THEN 16 ELSE 8
         IN  IF pos + header > Len(data) THEN <<>>
             ELSE LET size == IF large THEN U32(data, pos + 12) ELSE U32(data, pos)
                  IN  IF size < header \/ pos + size > Len(data) THEN <<>>
                      ELSE <<[type |-> SubSeq(data, pos + 5, pos + 8),
                              bytes |-> SubSeq(data, pos + 1, pos + size),
                              payload |-> SubSeq(data, pos + header + 1, pos + size)]>>
                           \o boxes_at(data, pos + size)

boxes_of_type(data, type) ==
    SelectSeq(boxes_at(data, 0), LAMBDA b : b.type = fourcc(type))

decrypted == returned.fn = "decrypt_segment" /\ returned.raised = "none"

\* C27: the moov of the output is no longer than the moov of the input, and
\* the mdat payload of the output has as many bytes as the mdat payload of
\* the input, with or without sub-samples and also when the sample sizes or
\* the sub-sample sizes exceed the bytes available.
C27_MoovShrinksMdatKeepsLength ==
    decrypted =>
        LET moov_in == boxes_of_type(returned.combined_segment, "moov")
            moov_out == boxes_of_type(returned.result, "moov")
            mdat_in == boxes_of_type(returned.combined_segment, "mdat")
            mdat_out == boxes_of_type(returned.result, "mdat")
        IN  /\ \A i \in (DOMAIN moov_in) \cap (DOMAIN moov_out) :
                  Len(moov_out[i].bytes) <= Len(moov_in[i].bytes)
            /\ \A i \in (DOMAIN mdat_in) \cap (DOMAIN mdat_out) :
                  Len(mdat_out[i].payload) = Len(mdat_in[i].payload)

\* C28: the output has the boxes of the input in their order, every box
\* other than moov, moof, sidx and mdat byte for byte; an input with none of
\* the four (64-bit sizes and trailing bytes included) is returned unchanged.
C28_PassThroughInOrder ==
    decrypted =>
        LET in == boxes_at(returned.combined_segment, 0)
            out == boxes_at(returned.result, 0)
            four == {fourcc("moov"), fourcc("moof"), fourcc("sidx"), fourcc("mdat")}
        IN  /\ Len(out) = Len(in)
            /\ \A i \in DOMAIN in :
                  /\ out[i].type = in[i].type
                  /\ in[i].type \notin four => out[i].bytes = in[i].bytes
            /\ (\A i \in DOMAIN in : in[i].type \notin four)
                   => returned.result = returned.combined_segment

\* C29: with one entry in the key map its key is used whatever the track;
\* with several entries the track ID of the tfhd selects the key, and when
\* no entry matches the call fails with an error, never returning the mdat
\* undecrypted or decrypted with the key of an earlier fragment.
C29_KeyByTrackOrError ==
    (returned.fn = "decrypt_segment" /\ returned.segment.tids # <<>>) =>
        LET key_map == returned.key_map
            tids == returned.segment.tids
            tid == P32(tids[Len(tids)])
        IN  IF Cardinality(DOMAIN key_map) = 1
            THEN decrypted => returned.decrypter.current_key
                                  = key_map[CHOOSE k \in DOMAIN key_map : TRUE]
            ELSE IF tid \in DOMAIN key_map
                 THEN decrypted => returned.decrypter.current_key = key_map[tid]
                 ELSE returned.raised # "none"

\* C30: the referenced size of the output sidx is the input value less R,
\* the bytes of the protection boxes removed from the moof, whether the sidx
\* stands before the moof or after it.
C30_SidxLessRemoved ==
    decrypted =>
        LET moof_in == boxes_of_type(returned.combined_segment, "moof")
            moof_out == boxes_of_type(returned.result, "moof")
            sidx_in == boxes_of_type(returned.combined_segment, "sidx")
            sidx_out == boxes_of_type(returned.result, "sidx")
        IN  (Len(moof_in) = 1 /\ Len(moof_out) = 1
             /\ Len(sidx_in) = 1 /\ Len(sidx_out) = 1)
            => LET R == Len(moof_in[1].bytes) - Len(moof_out[1].bytes)
               IN  U32(sidx_out[1].payload, SIDX_REF)
                       = U32(sidx_in[1].payload, SIDX_REF) - R

\* The children of a box of the given type, as the format defines them.
children_of_type(box, type) ==
    SelectSeq(boxes_at(box.payload, 0), LAMBDA b : b.type = fourcc(type))

\* R of a moof: the bytes of the senc, saiz, saio and uuid boxes of its trafs.
removed_from(moof) ==
    LET trafs == children_of_type(moof, "traf")
        of(traf) == LET bs == boxes_at(traf.payload, 0)
                    IN  sum_sizes([i \in DOMAIN bs |->
                            [size |-> IF bs[i].type \in enc_boxes
                                      THEN Len(bs[i].bytes) ELSE 0]])
    IN  sum_sizes([i \in DOMAIN trafs |-> [size |-> of(trafs[i])]])

\* C31: every trun with the data-offset flag has in the output its input data
\* offset less R, the bytes of the senc, saiz, saio and uuid boxes removed
\* from the enclosing moof, also when the moof holds several trafs; a trun
\* without the flag is unchanged.
C31_TrunOffsetLessRemoved ==
    decrypted =>
        LET moof_in == boxes_of_type(returned.combined_segment, "moof")
            moof_out == boxes_of_type(returned.result, "moof")
        IN  /\ Len(moof_out) = Len(moof_in)
            /\ \A m \in DOMAIN moof_in :
                  LET traf_in == children_of_type(moof_in[m], "traf")
                      traf_out == children_of_type(moof_out[m], "traf")
                  IN  /\ Len(traf_out) = Len(traf_in)
                      /\ \A t \in DOMAIN traf_in :
                            LET trun_in == children_of_type(traf_in[t], "trun")
                                trun_out == children_of_type(traf_out[t], "trun")
                            IN  /\ Len(trun_out) = Len(trun_in)
                                /\ \A u \in DOMAIN trun_in :
                                      IF Bit(box_flags(trun_in[u].payload), 1)
                                      THEN S32(trun_out[u].payload, 8)
                                               = S32(trun_in[u].payload, 8)
                                                 - removed_from(moof_in[m])
                                      ELSE trun_out[u].bytes = trun_in[u].bytes

\* The samples a senc box describes: the count after the version and flags,
\* then per sample its initial value and its sub-samples.
senc_described(senc) ==
    senc_samples(senc.payload, Bit(box_flags(senc.payload), 2), 8,
                 U32(senc.payload, 4))

\* C34: the initial value used for sample i is the i-th one stored in the
\* senc of the traf, read after the version, flags and sample count, and the
\* parsed initial values and sub-samples are the same whether the trun
\* precedes the senc or follows it.
C34_SencParsedAfterCount ==
    decrypted =>
        LET moof_in == boxes_of_type(returned.combined_segment, "moof")
        IN  Len(moof_in) = 1 =>
                LET traf_in == children_of_type(moof_in[1], "traf")
                IN  Len(traf_in) = 1 =>
                        LET senc_in == children_of_type(traf_in[1], "senc")
                        IN  Len(senc_in) = 1 =>
                                returned.decrypter.current_sample_info
                                    = senc_described(senc_in[1])

\* A moof none of whose trafs holds a senc box.
without_senc(moof) ==
    \A t \in DOMAIN children_of_type(moof, "traf") :
        children_of_type(children_of_type(moof, "traf")[t], "senc") = <<>>

\* C35: with several fragments, the mdat of a fragment whose moof has no
\* senc box is passed through unchanged, never decrypted with the sample
\* info left by an earlier fragment.
C35_ClearFragmentUnchanged ==
    decrypted =>
        LET moof_in == boxes_of_type(returned.combined_segment, "moof")
            mdat_in == boxes_of_type(returned.combined_segment, "mdat")
            mdat_out == boxes_of_type(returned.result, "mdat")
        IN  (Len(mdat_in) = Len(moof_in) /\ Len(mdat_out) = Len(moof_in))
            => \A i \in DOMAIN moof_in :
                  without_senc(moof_in[i]) => mdat_out[i].bytes = mdat_in[i].bytes

\* The number of segments the S elements before the e-th stand for.
RECURSIVE segments_before(_, _)
segments_before(timeline, e) ==
    IF e <= 1 THEN 0
    ELSE segments_before(timeline, e - 1) + timeline[e - 1].r + 1

\* C32: each S element yields r + 1 segments of duration d / timescale; the
\* numbers start at startNumber and grow by one per segment across the
\* elements; a segment's time is the time of the segment before it plus that
\* segment's d unless its element carries t; and the segments a media
\* playlist lists have consecutive numbers.
C32_TimelineExpansion ==
    (mpd_request.kind = "mpd" /\ playlist.kind = "media") =>
        LET mpd == origins.mpd
            timeline == mpd.timeline
            all == playlist.segments
            first(e) == segments_before(timeline, e) + 1
            listed == SelectSeq(playlist.lines, LAMBDA l : l.tag = "uri")
            extinf == SelectSeq(playlist.lines, LAMBDA l : l.tag = "#EXTINF")
        IN  /\ Len(all) = segments_before(timeline, Len(timeline) + 1)
            /\ \A e \in DOMAIN timeline :
                  \A k \in first(e)..(first(e) + timeline[e].r) :
                      /\ k \in DOMAIN all
                      /\ all[k].d = timeline[e].d
                      /\ all[k].number = mpd.startNumber + k - 1
                      /\ all[k].time =
                            IF k = first(e) /\ timeline[e].t # -1 THEN timeline[e].t
                            ELSE IF k = 1 THEN 0
                            ELSE all[k - 1].time + all[k - 1].d
            /\ \A i \in 1..(Len(listed) - 1) :
                  listed[i + 1].number = listed[i].number + 1
            /\ Len(extinf) = Len(listed)
            /\ \A i \in DOMAIN listed :
                  /\ extinf[i].scale = mpd.timescale
                  /\ \E k \in DOMAIN all :
                        /\ all[k].number = listed[i].number
                        /\ all[k].time = listed[i].time
                        /\ extinf[i].value = all[k].d

\* A live playlist of a timeline of two S elements, the second with its own
\* t and repeated, trimmed by the window and the hold-back, that lists
\* several segments.
C32_Witness ==
    /\ mpd_request.kind = "mpd"
    /\ playlist.kind = "media"
    /\ Lower(origins.mpd.type) = "dynamic"
    /\ Len(origins.mpd.timeline) = 2
    /\ origins.mpd.timeline[2].t # -1
    /\ origins.mpd.timeline[2].r > 0
    /\ origins.mpd.startNumber > 1
    /\ Len(playlist.windowed) < Len(playlist.segments)
    /\ Len(SelectSeq(playlist.lines, LAMBDA l : l.tag = "uri")) >= 2

\* C33: the cache key of a prefetch task for a segment is the key the
\* decrypt handler looks up for a request of that segment with the same
\* key_id, and once the download of a prefetch task has answered 200 the
\* segment cache holds a fresh entry under the key the handler looks up, so
\* that the request is a cache hit.
C33_PrefetchKeyIsLookupKey ==
    /\ \A task \in BagToSet(prefetching) :
          \E request \in DecryptRequests :
              task.key = ts_cache_key(task.url, request.key_id)
    /\ (ev.kind = "prefetch_end" /\ ev.seg_ok)
          => \E i \in 1..Len(segment_cache) :
                /\ segment_cache[i].key = ev.key \o <<":", "ts">>
                /\ cache_fresh(segment_cache[i].time)

\* C36: the Content-Type of a decrypt response describes the bytes served:
\* raw fMP4 (a segment whose remux failed) goes out as video/mp4, on the
\* request that produced it and on every later cache hit, and a response
\* labelled video/MP2T carries remuxed MPEG-TS.
C36_ContentTypeDescribesBytes ==
    (resp.endpoint = "decrypt" /\ resp.status = 200) =>
        /\ resp.body = "fmp4" => resp.content_type = "video/mp4"
        /\ resp.content_type = "video/MP2T" => resp.body = "ts"

\* A decrypt request reaches the point where it starts prefetch tasks.
DecryptStep == \E d \in DecryptIds : DecryptDone(d)

\* C38: every cache key added to the pending set of the prefetch is
\* eventually removed from it, however its task ends; a task that has ended
\* has left the set without its key; and if from some point on no decrypt
\* request is served, the pending set is eventually empty for good.
C38_PendingEventuallyRemoved ==
    /\ \A k \in PrefetchKeys : (k \in prefetch_tasks) ~> (k \notin prefetch_tasks)
    /\ [](ev.kind = "prefetch_end" => ev.key \notin prefetch_tasks)
    /\ <>[][~ DecryptStep]_vars => <>[](prefetch_tasks = {})

\* A prefetch task whose download failed has ended: its key has left the
\* pending set, where the keys of the tasks still running remain, and the
\* segment cache holds nothing for it.
C38_Witness ==
    /\ ev.kind = "prefetch_end"
    /\ ~ ev.seg_ok
    /\ ev.key \notin prefetch_tasks
    /\ prefetch_tasks # {}
    /\ ev.key \notin CacheKeys(segment_cache)

-----------------------------------------------------------------------------
(* The forced-refresh retry of handle_proxy_request *)

\* The requests that a finished response can belong to.
requests_of(r) ==
    {q \in SiteRequests : q.url = r.url /\ combined_headers(q) = r.own}

\* C37: a proxy request is processed alike whether extract() succeeded at
\* once or on the forced-refresh retry: the upstream request carries every
\* h_ parameter in place of the descriptor's header of that name (whatever
\* the case), and a DASH destination is handled by the MPD branch, never
\* relayed by _proxy_stream.
C37_RetryProcessedAlike ==
    (resp.endpoint = "proxy" /\ resp.status # 0 /\ resp.destination # <<>>)
    => \A u \in sent :
          /\ is_mpd_url(resp.destination) => u.kind # "stream"
          /\ u.kind \in {"stream", "mpd"}
             => \A q \in requests_of(resp) : \A n \in DOMAIN q.h :
                   /\ CIHas(u.headers, n)
                   /\ CIGet(u.headers, n) = q.h[n]
                   /\ Cardinality({k \in DOMAIN u.headers : Lower(k) = Lower(n)}) = 1

====
